---------------------------- MODULE Spec2Model ----------------------------
(***************************************************************************)
(* A model of the Infineon sensor-dsp library (src/source/*.c).            *)
(*                                                                         *)
(* The parts of the library are modelled each as its own specification    *)
(* over the variables of the module:                                       *)
(*   SpecPeak        ifx_peak_search_f32, one action per outcome of a loop *)
(*                   iteration;                                            *)
(*   SpecFft         the static transform plans of ifx_range_fft_f32,      *)
(*                   ifx_range_cfft_f32 and ifx_doppler_cfft_f32;          *)
(*   SpecFftThreads  two threads inside one of these functions;            *)
(*   SpecFrame       the data of one call of these functions, statement    *)
(*                   by statement;                                         *)
(*   SpecMti         ifx_mti_init_f32 and ifx_mti_f32 on one instance;     *)
(*   SpecDbf         ifx_angle_dbf_f32;                                    *)
(*   SpecMono        ifx_angle_monopulse_f32 with ifx_arcsin_f32;          *)
(*   SpecSteer       ifx_gen_steering_matrix_f32, one action per entry;    *)
(*   SpecShift       ifx_shift_cfft_f32 with ifx_rotate_f32.               *)
(*                                                                         *)
(* float32_t values are integers counted in a fixed unit (a power of two), *)
(* and every float32 operation rounds its exact result to 24 significant   *)
(* bits, ties to even, as IEEE-754 single precision does.  Exponent        *)
(* overflow and underflow are outside the model.                           *)
(***************************************************************************)
EXTENDS Integers, Sequences, FiniteSets, TLC

VARIABLES peak, fft, mti, dbf

vars == <<peak, fft, mti, dbf>>

(***************************************************************************)
(* float32 arithmetic                                                      *)
(***************************************************************************)

\* Two to the power n.
Pow2(n) == 2 ^ n

\* The distance between neighbouring float32 values around magnitude m, in
\* units in which every integer below 2^24 is a float32 value.
RECURSIVE Spacing(_)
Spacing(m) == IF m < Pow2(24) THEN 1 ELSE 2 * Spacing(m \div 2)

\* Round a magnitude to the nearest float32 value, ties to even.
RoundMag(m) ==
    LET s == Spacing(m)
        q == m \div s
        r == m % s
    IN  IF 2 * r < s THEN q * s
        ELSE IF 2 * r > s THEN (q + 1) * s
        ELSE IF q % 2 = 0 THEN q * s ELSE (q + 1) * s

\* The float32 value of the exact result v.
F32(v) == IF v >= 0 THEN RoundMag(v) ELSE -RoundMag(-v)

\* a - b and a + b in float32.
FSub(a, b) == F32(a - b)
FAdd(a, b) == F32(a + b)

Abs(v) == IF v >= 0 THEN v ELSE -v

\* The null pointer, and a pointer to one object.
NULL == <<>>
Ptr(obj) == <<obj>>

(***************************************************************************)
(* ifx_peak_search_f32 (src/source/ifx_peak_search_f32.c)                  *)
(*                                                                         *)
(* peak is the activation record of one call: the arguments x, length,     *)
(* max_peaks and opts, the locals i, peak_count and last_peak_index, and   *)
(* the caller's array peak_indices as the map from every element written   *)
(* so far to its value.  The caller's array holds max_peaks elements; a    *)
(* write at an offset outside 0 .. max_peaks-1 is recorded like any other. *)
(* Samples are float32 values in units of 2^-24.                           *)
(***************************************************************************)

\* Bounds of the inputs tried.
MaxLen == 5
MaxPeaks == 3

\* 1.0f in units of 2^-24.
PeakUnit == Pow2(24)

\* FLT_EPSILON = 2^-23, in units of 2^-24.
FLT_EPSILON == 2

\* -INFINITY: below every sample of the model.
NEG_INFINITY == -Pow2(30)

\* The options used when opts == NULL.
DefaultOpts ==
    [height |-> NEG_INFINITY, threshold |-> FLT_EPSILON, distance |-> 1, width |-> 1]

\* height, threshold, distance and width as the call reads them.
Opts(p) == IF p.opts = NULL THEN DefaultOpts ELSE p.opts[1]

\* One side of get_prominence: walk from i in direction step until a sample
\* above peak_val or the end of the array, tracking the minimum.
RECURSIVE prominence_walk(_, _, _, _, _, _)
prominence_walk(x, length, peak_val, i, step, min) ==
    IF i < 0 \/ i >= length THEN min
    ELSE IF x[i] > peak_val THEN min
    ELSE prominence_walk(x, length, peak_val, i + step, step,
                         IF x[i] < min THEN x[i] ELSE min)

\* A mutant: the prominence is measured from the lower of the two minima.
get_prominence_lowerMin(x, length, peak_index) ==
    LET peak_val == x[peak_index]
        min_lhs == prominence_walk(x, length, peak_val, peak_index - 1, -1, peak_val)
        min_rhs == prominence_walk(x, length, peak_val, peak_index + 1, 1, peak_val)
    IN  IF min_rhs > min_lhs THEN FSub(peak_val, min_lhs) ELSE FSub(peak_val, min_rhs)

get_prominence(x, length, peak_index) ==
    LET peak_val == x[peak_index]
        min_lhs == prominence_walk(x, length, peak_val, peak_index - 1, -1, peak_val)
        min_rhs == prominence_walk(x, length, peak_val, peak_index + 1, 1, peak_val)
    IN  IF min_rhs > min_lhs THEN FSub(peak_val, min_rhs) ELSE FSub(peak_val, min_lhs)

\* The first index from i in direction step whose sample is below
\* width_magnitude, or none (the set is empty) when the walk leaves the array.
RECURSIVE width_crossing(_, _, _, _, _)
width_crossing(x, length, width_magnitude, i, step) ==
    IF i < 0 \/ i >= length THEN {}
    ELSE IF x[i] < width_magnitude THEN {i}
    ELSE width_crossing(x, length, width_magnitude, i + step, step)

get_width(x, length, peak_index, peak_prominence) ==
    LET width_magnitude == FSub(x[peak_index], peak_prominence)
        rhs == width_crossing(x, length, width_magnitude, peak_index + 1, 1)
        lhs == width_crossing(x, length, width_magnitude, peak_index - 1, -1)
        width0 == IF rhs = {} THEN 0 ELSE CHOOSE i \in rhs : TRUE
    IN  IF lhs = {} THEN width0 ELSE width0 - (CHOOSE i \in lhs : TRUE)

\* peak_prominence * 0.5f: halving is exact in float32.
FHalf(v) == F32(v \div 2)

\* The checks of one loop iteration, in the order of the code.
HeightOk(p) == ~(p.x[p.i] <= Opts(p).height)

sample_thresh(p) == FSub(p.x[p.i], Opts(p).threshold)

ThresholdOk(p) ==
    /\ ~(sample_thresh(p) < p.x[p.i - 1])
    /\ ~(sample_thresh(p) < p.x[p.i + 1])

\* The condition under which the distance to the last peak is looked at.
DistanceChecked(p) ==
    /\ p.peak_count > 0
    /\ p.last_peak_index > (p.i - Opts(p).distance)

DistanceOk(p) == DistanceChecked(p) => p.x[p.last_peak_index] < p.x[p.i]

peak_count_increment(p) == IF DistanceChecked(p) THEN 0 ELSE 1

peak_width(p) ==
    get_width(p.x, p.length, p.i, FHalf(get_prominence(p.x, p.length, p.i)))

WidthOk(p) == (Opts(p).width > 1) => ~(peak_width(p) < Opts(p).width)

\* The for loop's condition.
InLoop(p) == p.pc = "loop" /\ p.i < (p.length - 1)

\* continue: the next iteration.
Continue(p) == [p EXCEPT !.i = p.i + 1]

\* A mutant: the index stored counts the samples from one.
Store_oneBased(a, k, v) == [j \in (DOMAIN a) \cup {k} |-> IF j = k THEN v + 1 ELSE a[j]]

\* peak_indices[k] = v.
Store(a, k, v) == [j \in (DOMAIN a) \cup {k} |-> IF j = k THEN v ELSE a[j]]

\* return v.
Return(p, v) == [p EXCEPT !.pc = "done", !.ret = v]

\* The inputs tried.
SampleVals == {0, PeakUnit, 5 * PeakUnit}

Arrays(n) == [0 .. (n - 1) -> SampleVals]

OptsTried ==
    {NULL} \cup
    {Ptr(o) : o \in [height : {NEG_INFINITY, 2 * PeakUnit},
                     threshold : {FLT_EPSILON, PeakUnit},
                     distance : {1, 2, 3, 4},
                     width : {1, 2, 3}]}

\* x = [0,1,0,5,0,1,0] with max_peaks = 5: default options, distance 4 and 5,
\* height 2.
ExampleX == [k \in 0 .. 6 |-> <<0, 1, 0, 5, 0, 1, 0>>[k + 1] * PeakUnit]

ExampleCalls ==
    {[x |-> ExampleX, length |-> 7, max_peaks |-> 5, opts |-> o] :
        o \in {NULL,
               Ptr([DefaultOpts EXCEPT !.distance = 4]),
               Ptr([DefaultOpts EXCEPT !.distance = 5]),
               Ptr([DefaultOpts EXCEPT !.height = 2 * PeakUnit])}}

\* Calls whose width check decides: 0,5,3,0,3,5,0,7,0 (the third peak would
\* replace the second), 3,5,3,0,0 (the two side minima differ) and 5,5,0 with
\* threshold 0 (no sample left of the candidate is below it).
WidthArrays ==
    {<<0, 5, 3, 0, 3, 5, 0, 7, 0>>, <<3, 5, 3, 0, 0>>, <<5, 5, 0>>}

WidthCalls ==
    {[x |-> [k \in 0 .. (Len(a) - 1) |-> a[k + 1] * PeakUnit],
      length |-> Len(a), max_peaks |-> 5,
      opts |-> Ptr([DefaultOpts EXCEPT !.threshold = IF Len(a) = 3 THEN 0 ELSE FLT_EPSILON,
                                       !.distance = 3,
                                       !.width = w])] :
        a \in WidthArrays, w \in {2, 3}}

PeakCalls ==
    ExampleCalls \cup WidthCalls \cup
    UNION {[x : Arrays(n), length : {n}, max_peaks : 0 .. MaxPeaks, opts : OptsTried] :
              n \in 0 .. MaxLen}

\* The state on entry to the loop, for the arguments c.
PeakEntry(c) ==
    [x |-> c.x, length |-> c.length, max_peaks |-> c.max_peaks, opts |-> c.opts,
     i |-> 1, peak_count |-> -1, last_peak_index |-> 0,
     peak_indices |-> <<>>, pc |-> "loop", ret |-> -1]

\* The records of the parts a specification leaves out.
PeakIdle == [pc |-> "idle"]
FftIdle == [pc |-> "idle"]
MtiIdle == [pc |-> "idle"]
DbfIdle == [pc |-> "idle"]

PeakInit ==
    /\ \E c \in PeakCalls : peak = PeakEntry(c)
    /\ fft = FftIdle
    /\ mti = MtiIdle
    /\ dbf = DbfIdle

PeakRejectHeight ==
    /\ InLoop(peak)
    /\ ~HeightOk(peak)
    /\ peak' = Continue(peak)
    /\ UNCHANGED <<fft, mti, dbf>>

PeakRejectThreshold ==
    /\ InLoop(peak)
    /\ HeightOk(peak)
    /\ ~ThresholdOk(peak)
    /\ peak' = Continue(peak)
    /\ UNCHANGED <<fft, mti, dbf>>

PeakRejectDistance ==
    /\ InLoop(peak)
    /\ HeightOk(peak)
    /\ ThresholdOk(peak)
    /\ ~DistanceOk(peak)
    /\ peak' = Continue(peak)
    /\ UNCHANGED <<fft, mti, dbf>>

PeakRejectWidth ==
    /\ InLoop(peak)
    /\ HeightOk(peak)
    /\ ThresholdOk(peak)
    /\ DistanceOk(peak)
    /\ ~WidthOk(peak)
    /\ peak' = Continue(peak)
    /\ UNCHANGED <<fft, mti, dbf>>

\* All checks ok: store the peak, and stop once max_peaks is reached.
PeakAccept ==
    /\ InLoop(peak)
    /\ HeightOk(peak)
    /\ ThresholdOk(peak)
    /\ DistanceOk(peak)
    /\ WidthOk(peak)
    /\ LET count == peak.peak_count + peak_count_increment(peak)
           stored == [peak EXCEPT !.peak_count = count,
                                  !.peak_indices = Store(peak.peak_indices, count, peak.i),
                                  !.last_peak_index = peak.i]
       IN  peak' = IF (count + 1) >= peak.max_peaks
                   THEN Return(stored, count + 1)
                   ELSE Continue(stored)
    /\ UNCHANGED <<fft, mti, dbf>>

\* The loop ends at the second last sample.
PeakReturn ==
    /\ peak.pc = "loop"
    /\ ~(peak.i < (peak.length - 1))
    /\ peak' = Return(peak, peak.peak_count + 1)
    /\ UNCHANGED <<fft, mti, dbf>>

PeakNext ==
    \/ PeakRejectHeight
    \/ PeakRejectThreshold
    \/ PeakRejectDistance
    \/ PeakRejectWidth
    \/ PeakAccept
    \/ PeakReturn

\* One call of ifx_peak_search_f32 on the inputs tried.
SpecPeak == PeakInit /\ [][PeakNext]_vars

(***************************************************************************)
(* The transform plans of ifx_range_fft_f32, ifx_range_cfft_f32 and        *)
(* ifx_doppler_cfft_f32 (src/source/ifx_range_fft_f32.c,                   *)
(* ifx_range_cfft_f32.c, ifx_doppler_cfft_f32.c)                           *)
(*                                                                         *)
(* Each function keeps its plan in a static of its own.  A plan is the     *)
(* length field the function compares (fftLenRFFT, fftLen) and the length  *)
(* its tables were last built for (0: no tables).  fft.plan holds the      *)
(* statics; fft.last is the record of the latest call: its arguments,      *)
(* whether it called the backend init, the value it returned and the log   *)
(* of the per-chirp (per-row) steps it executed, each transform with the   *)
(* plan it ran on; fft.prev is, per function, the length of its latest     *)
(* call if that call returned IFX_SENSOR_DSP_STATUS_OK, and NoLength       *)
(* otherwise; fft.after_error tells that the call before the latest was a  *)
(* call of the same function that returned IFX_SENSOR_DSP_ARGUMENT_ERROR.  *)
(***************************************************************************)

\* Bound on num_chirps_per_frame (range) and num_range_bins (Doppler).
MaxRows == 1

IFX_SENSOR_DSP_STATUS_OK == 0
IFX_SENSOR_DSP_ARGUMENT_ERROR == 1

Fns == {"ifx_range_fft_f32", "ifx_range_cfft_f32", "ifx_doppler_cfft_f32"}

\* The transform family of a function: real or complex FFT.
Family(fn) == IF fn = "ifx_range_fft_f32" THEN "rfft" ELSE "cfft"

ComplexFns == {fn \in Fns : Family(fn) = "cfft"}

\* A mutant: the two complex transforms share one static plan.
StaticOf_shared(fn) == Family(fn)

\* The static plan a function uses: a function-scope static in each.
StaticOf(fn) == fn

Statics == {StaticOf(fn) : fn \in Fns}

\* static arm_rfft_fast_instance_f32 rfft = { 0 }, arm_cfft_instance_f32 cfft = { 0 }.
ZeroPlan == [fftLen |-> 0, tables |-> 0]

\* The transform lengths tried, and those among them the backend builds a
\* plan for (arm_rfft_fast_init_f32: 32 .. 4096, arm_cfft_init_f32: 16 .. 4096,
\* powers of two).
LengthsTried == {0, 8, 32, 64}

BackendLengths(family) ==
    IF family = "rfft"
    THEN {32, 64, 128, 256, 512, 1024, 2048, 4096}
    ELSE {16, 32, 64, 128, 256, 512, 1024, 2048, 4096}

Supported(family) == LengthsTried \cap BackendLengths(family)

\* A mutant: a failed init drops the tables and leaves the length field.
BackendInit_dropsTables(family, S, n) ==
    IF n \in Supported(family)
    THEN {[status |-> "ARM_MATH_SUCCESS", S |-> [fftLen |-> n, tables |-> n]]}
    ELSE {[status |-> "ARM_MATH_ARGUMENT_ERROR", S |-> [fftLen |-> S.fftLen, tables |-> 0]]}

\* arm_rfft_fast_init_f32(&rfft, n) and arm_cfft_init_f32(&cfft, n): the
\* status returned and the instance left behind.  The backend is external: a
\* failed init either leaves the instance as it was or has stored the length
\* before it found no tables for it.
BackendInit(family, S, n) ==
    IF n \in Supported(family)
    THEN {[status |-> "ARM_MATH_SUCCESS", S |-> [fftLen |-> n, tables |-> n]]}
    ELSE {[status |-> "ARM_MATH_ARGUMENT_ERROR", S |-> S],
          [status |-> "ARM_MATH_ARGUMENT_ERROR", S |-> [fftLen |-> n, tables |-> 0]]}

\* A mutant: the plan is rebuilt on every call.
NeedsInit_always(S, n) == TRUE

\* A mutant: the cached plan is used whatever its length.
NeedsInit_never(S, n) == FALSE

\* if (rfft.fftLenRFFT != num_samples_per_chirp), if (cfft.fftLen != ...).
NeedsInit(S, n) == S.fftLen # n

\* The steps of one chirp (range) or one range-bin row (Doppler), in order.
RowSteps(fn, row, mean_removal, win, S) ==
    (IF mean_removal THEN <<[op |-> "mean_removal", row |-> row]>> ELSE <<>>)
    \o (IF win # NULL THEN <<[op |-> "window", row |-> row]>> ELSE <<>>)
    \o <<[op |-> "transform", row |-> row, plan |-> S]>>
    \o (IF fn = "ifx_range_fft_f32" THEN <<[op |-> "zero_imag_0", row |-> row]>> ELSE <<>>)

\* The for loop over the chirps (rows), from row k.
RECURSIVE Rows(_, _, _, _, _, _)
Rows(fn, k, rows, mean_removal, win, S) ==
    IF k < rows
    THEN RowSteps(fn, k, mean_removal, win, S) \o Rows(fn, k + 1, rows, mean_removal, win, S)
    ELSE <<>>

\* What a call executes once its plan is in place: the Doppler transform
\* transposes first.
Body(fn, rows, mean_removal, win, S) ==
    (IF fn = "ifx_doppler_cfft_f32" THEN <<[op |-> "transpose"]>> ELSE <<>>)
    \o Rows(fn, 0, rows, mean_removal, win, S)

FftArgs ==
    [fn : Fns, len : LengthsTried, rows : 0 .. MaxRows,
     mean_removal : BOOLEAN, win : {NULL, Ptr("win")}]

NoCall == [fn |-> "none"]

\* No latest successful call.
NoLength == -1

FftInit ==
    /\ fft = [plan |-> [s \in Statics |-> ZeroPlan],
              last |-> NoCall,
              prev |-> [fn \in Fns |-> NoLength],
              after_error |-> FALSE]
    /\ peak = PeakIdle
    /\ mti = MtiIdle
    /\ dbf = DbfIdle

\* The record of a call with arguments a that called the backend init or
\* not, and returned ret after executing log.
CallRecord(a, init_called, ret, log) ==
    [fn |-> a.fn, len |-> a.len, rows |-> a.rows, mean_removal |-> a.mean_removal,
     win |-> a.win, init_called |-> init_called, ret |-> ret, log |-> log]

Completed(a, plan, init_called, ret, log) ==
    fft' = [plan |-> plan,
            last |-> CallRecord(a, init_called, ret, log),
            prev |-> [fft.prev EXCEPT ![a.fn] =
                         IF ret = IFX_SENSOR_DSP_STATUS_OK THEN a.len ELSE NoLength],
            after_error |-> (/\ fft.last.fn = a.fn
                             /\ fft.last.ret = IFX_SENSOR_DSP_ARGUMENT_ERROR)]

\* A call that finds the length of its static plan equal to the one asked for.
FftCallCached ==
    /\ \E a \in FftArgs :
        LET S == fft.plan[StaticOf(a.fn)]
        IN  /\ ~NeedsInit(S, a.len)
            /\ Completed(a, fft.plan, FALSE, IFX_SENSOR_DSP_STATUS_OK,
                         Body(a.fn, a.rows, a.mean_removal, a.win, S))
    /\ UNCHANGED <<peak, mti, dbf>>

\* A call that rebuilds its static plan.
FftCallRebuilt ==
    /\ \E a \in FftArgs :
        LET S == fft.plan[StaticOf(a.fn)]
        IN  /\ NeedsInit(S, a.len)
            /\ \E r \in BackendInit(Family(a.fn), S, a.len) :
                /\ r.status = "ARM_MATH_SUCCESS"
                /\ Completed(a, [fft.plan EXCEPT ![StaticOf(a.fn)] = r.S], TRUE,
                             IFX_SENSOR_DSP_STATUS_OK,
                             Body(a.fn, a.rows, a.mean_removal, a.win, r.S))
    /\ UNCHANGED <<peak, mti, dbf>>

\* A call whose backend init fails.
FftCallFailed ==
    /\ \E a \in FftArgs :
        LET S == fft.plan[StaticOf(a.fn)]
        IN  /\ NeedsInit(S, a.len)
            /\ \E r \in BackendInit(Family(a.fn), S, a.len) :
                /\ r.status # "ARM_MATH_SUCCESS"
                /\ Completed(a, [fft.plan EXCEPT ![StaticOf(a.fn)] = r.S], TRUE,
                             IFX_SENSOR_DSP_ARGUMENT_ERROR, <<>>)
    /\ UNCHANGED <<peak, mti, dbf>>

FftNext ==
    \/ FftCallCached
    \/ FftCallRebuilt
    \/ FftCallFailed

\* Any sequence of calls of the three transform functions.
SpecFft == FftInit /\ [][FftNext]_vars

(***************************************************************************)
(* ifx_mti_init_f32 and ifx_mti_f32 (src/source/ifx_mti_f32.c)             *)
(*                                                                         *)
(* mti.inst is the caller's ifx_mti_inst_f32, mti.mem the caller's history *)
(* buffers (historical_data points to one of them), mti.in_data and        *)
(* mti.out_data the arrays of the latest ifx_mti_f32 call.  Before the     *)
(* first init the instance and the buffers hold whatever the caller's      *)
(* memory held.  A failed assert ends the program (pc = "assert_failed").  *)
(* alpha is counted in halves, samples in units of 2^-MaxOps, so that the  *)
(* products alpha * out_data[j] of a run are integers of the model.        *)
(*                                                                         *)
(* Beside the program's state the record keeps: last, the latest call with *)
(* its arguments, the instance it found and the history it read; written,  *)
(* the history as the latest call left it; ref, the history of a filter    *)
(* built from zeros at the latest init and fed the same inputs; run, the   *)
(* number n of ifx_mti_f32 calls since the latest init, whether all of     *)
(* them had one and the same value c in every bin, and whether every       *)
(* float32 operation since the init was exact.                             *)
(***************************************************************************)

\* Bound on the number of calls (init and apply) of a run.
MaxOps == 4

\* alpha = 1.0f, counted in halves.
AlphaOne == Pow2(1)

\* 1.0f in the unit of the samples.
MtiUnit == Pow2(MaxOps)

\* The caller's history buffers and their size.
Bufs == {1, 2}
BinsTried == {0, 1, 2}
BufBins == 0 .. 1

\* alpha * v in float32, alpha in halves.
FMulAlpha(alpha, v) == F32((alpha * v) \div AlphaOne)

\* The bins the init loop zeroes, with a mutant that stops one bin short.
ZeroedBins_short(len) == 0 .. (len - 2)

ZeroedBins(len) == 0 .. (len - 1)

\* The asserts of ifx_mti_init_f32 (inst itself is never null here).
InitAsserts(inst, alpha, historical_data) ==
    /\ historical_data # NULL
    /\ inst.historical_data # NULL
    /\ inst.alpha >= 0
    /\ inst.alpha <= AlphaOne

\* The asserts of ifx_mti_f32 (in_data and out_data are never null here).
ApplyAsserts(inst) ==
    /\ inst.historical_data # NULL
    /\ inst.alpha >= 0
    /\ inst.alpha <= AlphaOne

\* A mutant: the history update drops alpha.
HistBin_noalpha(alpha, h, out) == FAdd(h, out)

\* historical_data[j] += alpha * out_data[j].
HistBin(alpha, h, out) == FAdd(h, FMulAlpha(alpha, out))

\* A mutant: the output is taken from the history after its update.
mti_f32_outputAfterUpdate(alpha, len, hist, in_data) ==
    LET upd == [j \in 0 .. (len - 1) |-> HistBin(alpha, hist[j], FSub(in_data[j], hist[j]))]
    IN  [out_data |-> [j \in 0 .. (len - 1) |-> FSub(in_data[j], upd[j])],
         hist |-> upd]

\* arm_sub_f32(in_data, historical_data, out_data, len), then the update loop:
\* the output and the history of the len bins.
mti_f32(alpha, len, hist, in_data) ==
    LET out == [j \in 0 .. (len - 1) |-> FSub(in_data[j], hist[j])]
    IN  [out_data |-> out,
         hist |-> [j \in 0 .. (len - 1) |-> HistBin(alpha, hist[j], out[j])]]

\* The first len bins of a buffer.
Bins(buf, len) == [j \in 0 .. (len - 1) |-> buf[j]]

\* A mutant: the updated history is not written back to the buffer.
StoreHistory_lost(buf, hist) == buf

\* The buffer with its first bins overwritten by hist.
StoreHistory(buf, hist) == [j \in DOMAIN buf |-> IF j \in DOMAIN hist THEN hist[j] ELSE buf[j]]

\* Whether the float32 operations of one ifx_mti_f32 call were all exact.
ExactCall(alpha, len, hist, in_data) ==
    \A j \in 0 .. (len - 1) :
        LET out == in_data[j] - hist[j]
        IN  /\ F32(out) = out
            /\ (alpha * out) % AlphaOne = 0
            /\ F32((alpha * out) \div AlphaOne) = (alpha * out) \div AlphaOne
            /\ F32(hist[j] + (alpha * out) \div AlphaOne) = hist[j] + (alpha * out) \div AlphaOne

\* The values tried: alpha -0.5, 0, 0.5, 1, 1.5; samples -1, 3, 2^24 - 1, 2^24,
\* in every bin or shifted from bin to bin.
AlphasTried == {-1, 0, 1, 2, 3}

InVals == <<-MtiUnit, 3 * MtiUnit, (Pow2(24) - 1) * MtiUnit, Pow2(24) * MtiUnit>>

InVectors(len) ==
    {[j \in 0 .. (len - 1) |-> InVals[k]] : k \in DOMAIN InVals}
    \cup {[j \in 0 .. (len - 1) |-> InVals[((k + j - 1) % Len(InVals)) + 1]] : k \in DOMAIN InVals}

\* Whether in_data holds one value in every bin.
IsConstant(in_data) == \A j, k \in DOMAIN in_data : in_data[j] = in_data[k]

\* What uninitialised memory holds in a history buffer.
StaleVal == 5 * MtiUnit

NoMtiCall == [op |-> "none"]

NoRun == [n |-> 0, constant |-> TRUE, c |-> 0, exact |-> TRUE]

MtiInit ==
    /\ \E a \in AlphasTried, hd \in {NULL, Ptr(1)} :
          mti = [pc |-> "running",
                 inst |-> [alpha |-> a, len |-> 0, historical_data |-> hd],
                 mem |-> [b \in Bufs |-> [j \in BufBins |-> StaleVal]],
                 in_data |-> <<>>, out_data |-> <<>>,
                 ops |-> 0, inited |-> FALSE,
                 last |-> NoMtiCall, written |-> <<>>, ref |-> <<>>, run |-> NoRun]
    /\ peak = PeakIdle
    /\ fft = FftIdle
    /\ dbf = DbfIdle

MtiCanCall == mti.pc = "running" /\ mti.ops < MaxOps

\* ifx_mti_init_f32(inst, alpha, len, historical_data) with its asserts holding.
MtiInitCall ==
    /\ MtiCanCall
    /\ \E alpha \in AlphasTried, len \in BinsTried, b \in Bufs :
          /\ InitAsserts(mti.inst, alpha, Ptr(b))
          /\ LET zeroed == [j \in BufBins |->
                              IF j \in ZeroedBins(len) THEN 0 ELSE mti.mem[b][j]]
             IN  mti' = [mti EXCEPT
                    !.inst = [alpha |-> alpha, len |-> len, historical_data |-> Ptr(b)],
                    !.mem = [mti.mem EXCEPT ![b] = zeroed],
                    !.ops = mti.ops + 1,
                    !.inited = TRUE,
                    !.last = [op |-> "init", ok |-> TRUE, alpha |-> alpha, len |-> len,
                              historical_data |-> Ptr(b), inst |-> mti.inst],
                    !.written = Bins(zeroed, len),
                    !.ref = [j \in 0 .. (len - 1) |-> 0],
                    !.run = NoRun]
    /\ UNCHANGED <<peak, fft, dbf>>

\* ifx_mti_init_f32 with one of its asserts failing.
MtiInitAbort ==
    /\ MtiCanCall
    /\ \E alpha \in AlphasTried, len \in BinsTried, hd \in {NULL} \cup {Ptr(b) : b \in Bufs} :
          /\ ~InitAsserts(mti.inst, alpha, hd)
          /\ mti' = [mti EXCEPT
                !.pc = "assert_failed",
                !.ops = mti.ops + 1,
                !.last = [op |-> "init", ok |-> FALSE, alpha |-> alpha, len |-> len,
                          historical_data |-> hd, inst |-> mti.inst]]
    /\ UNCHANGED <<peak, fft, dbf>>

\* ifx_mti_f32(inst, in_data, out_data) on an initialised instance.
MtiApply ==
    /\ MtiCanCall
    /\ mti.inited
    /\ ApplyAsserts(mti.inst)
    /\ \E in_data \in InVectors(mti.inst.len) :
          LET inst == mti.inst
              b == inst.historical_data[1]
              hist == Bins(mti.mem[b], inst.len)
              r == mti_f32(inst.alpha, inst.len, hist, in_data)
              same == /\ mti.run.constant
                      /\ IsConstant(in_data)
                      /\ (mti.run.n > 0 /\ inst.len > 0) => in_data[0] = mti.run.c
          IN  mti' = [mti EXCEPT
                 !.mem = [mti.mem EXCEPT ![b] = StoreHistory(mti.mem[b], r.hist)],
                 !.in_data = in_data,
                 !.out_data = r.out_data,
                 !.ops = mti.ops + 1,
                 !.last = [op |-> "apply", ok |-> TRUE, inst |-> inst, hist |-> hist],
                 !.written = r.hist,
                 !.ref = mti_f32(inst.alpha, inst.len, mti.ref, in_data).hist,
                 !.run = [n |-> mti.run.n + 1,
                          constant |-> same,
                          c |-> IF same /\ inst.len > 0 THEN in_data[0] ELSE 0,
                          exact |-> mti.run.exact
                                    /\ ExactCall(inst.alpha, inst.len, hist, in_data)]]
    /\ UNCHANGED <<peak, fft, dbf>>

\* ifx_mti_f32 with one of its asserts failing.
MtiApplyAbort ==
    /\ MtiCanCall
    /\ mti.inited
    /\ ~ApplyAsserts(mti.inst)
    /\ mti' = [mti EXCEPT
          !.pc = "assert_failed",
          !.ops = mti.ops + 1,
          !.last = [op |-> "apply", ok |-> FALSE, inst |-> mti.inst, hist |-> <<>>]]
    /\ UNCHANGED <<peak, fft, dbf>>

MtiNext ==
    \/ MtiInitCall
    \/ MtiInitAbort
    \/ MtiApply
    \/ MtiApplyAbort

\* Any sequence of at most MaxOps calls on one MTI instance.
SpecMti == MtiInit /\ [][MtiNext]_vars

(***************************************************************************)
(* Claims about ifx_peak_search_f32                                        *)
(***************************************************************************)

\* The candidate of this iteration passes the height and threshold checks and
\* the most recently accepted peak lies within distance samples of it.
C1_NearLastPeak ==
    /\ InLoop(peak)
    /\ HeightOk(peak)
    /\ ThresholdOk(peak)
    /\ peak.peak_count >= 0
    /\ peak.last_peak_index > (peak.i - Opts(peak).distance)

\* C1: for every candidate i that passes the height and threshold checks, if
\* the most recently accepted peak lies within distance samples of i, only the
\* larger of the two is kept, whatever the number of peaks accepted so far: the
\* number of accepted peaks does not grow, the accepted peak is replaced in
\* place when x[i] is larger (and i passes the width check), and otherwise the
\* list of accepted peaks is unchanged.
C1_DistanceRule ==
    [][C1_NearLastPeak =>
          /\ peak'.peak_count = peak.peak_count
          /\ IF peak.x[peak.last_peak_index] < peak.x[peak.i] /\ WidthOk(peak)
             THEN peak'.peak_indices =
                      Store(peak.peak_indices, peak.peak_count, peak.i)
             ELSE peak'.peak_indices = peak.peak_indices]_vars

\* C2: the value returned is within 0 .. max_peaks and only
\* peak_indices[0 .. max_peaks-1] is ever written.
C2_CountAndWritesWithinMaxPeaks ==
    /\ (DOMAIN peak.peak_indices) \subseteq (0 .. (peak.max_peaks - 1))
    /\ (peak.pc = "done") => (0 <= peak.ret /\ peak.ret <= peak.max_peaks)

(***************************************************************************)
(* Claims about the transform plans                                        *)
(***************************************************************************)

\* The number of per-chirp (per-row) transforms a call executed.
Transforms(log) == Cardinality({k \in DOMAIN log : log[k].op = "transform"})

\* C3: in any sequence of calls, every call whose transform length the
\* backend cannot build a plan for returns IFX_SENSOR_DSP_ARGUMENT_ERROR and
\* executes no per-chirp (per-row) transform.
C3_UnsupportedLengthIsRejected ==
    (fft.last.fn # "none" /\ fft.last.len \notin Supported(Family(fft.last.fn)))
        => /\ fft.last.ret = IFX_SENSOR_DSP_ARGUMENT_ERROR
           /\ Transforms(fft.last.log) = 0

\* C4: a call calls the backend init exactly when the length asked for
\* differs from the length of the plan its function has cached; the second of
\* two successive successful calls of a function with the same length does not
\* call the init, and a successful call of a function whose previous
\* successful call had another length does.
C4_PlanRebuiltExactlyOnLengthChange ==
    [][LET c == fft'.last
           S == fft.plan[StaticOf(c.fn)]
       IN  /\ c.init_called = (S.fftLen # c.len)
           /\ (c.ret = IFX_SENSOR_DSP_STATUS_OK /\ fft.prev[c.fn] = c.len)
                 => ~c.init_called
           /\ (c.ret = IFX_SENSOR_DSP_STATUS_OK /\ fft.prev[c.fn] \notin {NoLength, c.len})
                 => c.init_called]_vars

\* A call of a supported length executed its transforms on the plan an earlier
\* call built.
C4_Witness ==
    /\ fft.last.fn # "none"
    /\ fft.last.len \in Supported(Family(fft.last.fn))
    /\ fft.last.ret = IFX_SENSOR_DSP_STATUS_OK
    /\ ~fft.last.init_called
    /\ Transforms(fft.last.log) > 0

\* The static plans of a family that hold tables.
CachedPlans(family) ==
    {s \in {StaticOf(fn) : fn \in {g \in Fns : Family(g) = family}} :
        fft.plan[s].tables # 0}

Applied == mti.last.op = "apply" /\ mti.last.ok

\* The history buffer the instance points to.
History == mti.mem[mti.inst.historical_data[1]]

\* (1 - alpha) * h + alpha * x evaluated in float32.
Documented(alpha, h, x) == FAdd(FMulAlpha(AlphaOne - alpha, h), FMulAlpha(alpha, x))

C7_InitChecksAlphaArgument ==
    /\ (mti.last.op = "init" /\ ~(0 <= mti.last.alpha /\ mti.last.alpha <= AlphaOne))
          => ~mti.last.ok
    /\ (/\ mti.last.op = "init"
        /\ ~mti.inited
        /\ 0 <= mti.last.alpha /\ mti.last.alpha <= AlphaOne
        /\ mti.last.historical_data # NULL)
          => mti.last.ok
    /\ mti.inited => (0 <= mti.inst.alpha /\ mti.inst.alpha <= AlphaOne)

\* C8: after a successful init the instance holds the arguments and the first
\* len bins of the history are zero; the first ifx_mti_f32 call after it
\* returns its input.
C8_InitStoresAndZeroes ==
    /\ (mti.last.op = "init" /\ mti.last.ok)
          => /\ mti.inst.alpha = mti.last.alpha
             /\ mti.inst.len = mti.last.len
             /\ mti.inst.historical_data = mti.last.historical_data
             /\ \A j \in 0 .. (mti.inst.len - 1) : History[j] = 0
    /\ (Applied /\ mti.run.n = 1) => mti.out_data = mti.in_data

\* The first call after an init of two bins, with different samples.
C8_Witness ==
    /\ Applied
    /\ mti.run.n = 1
    /\ mti.inst.len = 2
    /\ mti.in_data[0] # mti.in_data[1]

\* C9: ifx_mti_f32 leaves alpha, len and the history pointer alone; it reads
\* the history the previous call (init or apply) left; its output is that of a
\* filter built from zeros at the latest init and fed the same inputs.
C9_HistoryPersistsUntilInit ==
    [][LET c == mti'.last
       IN  /\ (c.op = "apply") => (mti'.inst = mti.inst)
           /\ (c.op = "apply" /\ c.ok)
                 => /\ c.hist = mti.written
                    /\ mti'.out_data =
                          mti_f32(mti.inst.alpha, mti.inst.len, mti.ref, mti'.in_data).out_data
           /\ (c.op = "init" /\ c.ok)
                 => \A j \in 0 .. (mti'.inst.len - 1) :
                        mti'.mem[mti'.inst.historical_data[1]][j] = mti'.ref[j]]_vars

\* A call after a second init, the first init's buffer still holding the
\* history its calls left.
C9_Witness ==
    /\ Applied
    /\ mti.run.n = 1
    /\ mti.inst.len = 2
    /\ \E b \in Bufs :
          /\ Ptr(b) # mti.inst.historical_data
          /\ mti.mem[b][0] \notin {0, StaleVal}

\* c * (1 - alpha)^(n-1), for exact operations.
RECURSIVE Decayed(_, _, _)
Decayed(c, alpha, n) ==
    IF n <= 1 THEN c ELSE (Decayed(c, alpha, n - 1) * (AlphaOne - alpha)) \div AlphaOne

\* The calls since the latest init all had the value mti.run.c in every bin.
ConstantRun == Applied /\ mti.run.constant /\ mti.inst.len > 0

\* C10 as stated: for every alpha in [0, 1] and a constant input c the output
\* of the n-th call is c * (1 - alpha)^(n-1) in every bin and is driven toward
\* zero: from the second call on it is smaller than c.
C10_ConstantInputDecays ==
    ConstantRun =>
        \A j \in 0 .. (mti.inst.len - 1) :
            /\ mti.out_data[j] = Decayed(mti.run.c, mti.inst.alpha, mti.run.n)
            /\ (mti.run.n >= 2 /\ mti.run.c # 0) => Abs(mti.out_data[j]) < Abs(mti.run.c)

\* C10 as amended: with a constant input c the output magnitude never grows
\* from one call to the next; while no float32 operation rounds, the output
\* of the n-th call is c * (1 - alpha)^(n-1), which for 0 < alpha <= 1 shrinks from
\* call to call until it is zero; for alpha = 0 the output is c on every call.
C10_ConstantInputNeverGrows ==
    [][LET m == mti'
       IN  (/\ m.last.op = "apply" /\ m.last.ok
            /\ m.run.constant /\ m.inst.len > 0)
           => \A j \in 0 .. (m.inst.len - 1) :
                 /\ m.run.exact => m.out_data[j] = Decayed(m.run.c, m.inst.alpha, m.run.n)
                 /\ (m.inst.alpha = 0) => m.out_data[j] = m.run.c
                 /\ (m.run.n >= 2) => Abs(m.out_data[j]) <= Abs(mti.out_data[j])
                 /\ (m.run.n >= 2 /\ m.run.exact /\ m.inst.alpha > 0 /\ mti.out_data[j] # 0)
                       => Abs(m.out_data[j]) < Abs(mti.out_data[j])]_vars

\* The third call of a run with the constant input 3 and alpha = 0.5.
C10_Witness ==
    /\ ConstantRun
    /\ mti.run.n = 3
    /\ mti.run.exact
    /\ mti.inst.alpha = 1
    /\ mti.inst.len = 2
    /\ mti.run.c = 3 * MtiUnit

(***************************************************************************)
(* Claims about the peaks ifx_peak_search_f32 returns                      *)
(***************************************************************************)

\* The call has returned.
PeakDone == peak.pc = "done"

\* The indices the call returned, in the order of peak_indices.
Returned == {peak.peak_indices[k] : k \in 0 .. (peak.ret - 1)}

\* The interior indices of the array.
Interior == 1 .. (peak.length - 2)

\* The interior samples larger than both neighbours.
LocalMaxima ==
    {i \in Interior : peak.x[i] > peak.x[i - 1] /\ peak.x[i] > peak.x[i + 1]}

\* peak_indices[0 .. ret-1] is increasing.
Increasing ==
    \A k \in 0 .. (peak.ret - 2) : peak.peak_indices[k] < peak.peak_indices[k + 1]

\* C11: with opts == NULL, samples that are whole numbers and max_peaks at
\* least the number of local maxima (and at least 1), the call returns exactly the interior
\* indices whose sample is larger than both neighbours, in increasing order.
C11_DefaultsReturnLocalMaxima ==
    (/\ PeakDone
     /\ peak.opts = NULL
     /\ peak.max_peaks >= 1
     /\ \A i \in 0 .. (peak.length - 1) : peak.x[i] % PeakUnit = 0
     /\ peak.max_peaks >= Cardinality(LocalMaxima))
        => /\ peak.ret = Cardinality(LocalMaxima)
           /\ Returned = LocalMaxima
           /\ Increasing

\* C12: every index returned has x[i] > height and x[i] - threshold at least
\* x[i-1] and x[i+1]; on the array 0,1,0,5,0,1,0 with height = 2 the only
\* index returned is 3.
C12_ReturnedPassHeightAndThreshold ==
    PeakDone =>
        /\ \A i \in Returned :
              /\ peak.x[i] > Opts(peak).height
              /\ peak.x[i] - Opts(peak).threshold >= peak.x[i - 1]
              /\ peak.x[i] - Opts(peak).threshold >= peak.x[i + 1]
        /\ (/\ peak.x = ExampleX
            /\ peak.opts = Ptr([DefaultOpts EXCEPT !.height = 2 * PeakUnit]))
              => (peak.ret = 1 /\ peak.peak_indices[0] = 3)

\* C13: for every distance >= 1, consecutive returned indices are at least
\* distance samples apart.
C13_ReturnedAtLeastDistanceApart ==
    (PeakDone /\ Opts(peak).distance >= 1) =>
        \A k \in 0 .. (peak.ret - 2) :
            peak.peak_indices[k + 1] - peak.peak_indices[k] >= Opts(peak).distance

\* The interior samples that pass the height, threshold and width checks.
Qualifying ==
    {i \in Interior :
        LET c == [peak EXCEPT !.i = i]
        IN  HeightOk(c) /\ ThresholdOk(c) /\ WidthOk(c)}

\* C14: when more than max_peaks samples qualify as peaks (max_peaks >= 1,
\* distance = 1), the call returns max_peaks indices and no qualifying sample
\* left out is higher than a returned one.
C14_ReturnsHighestPeaks ==
    (/\ PeakDone
     /\ peak.max_peaks >= 1
     /\ Opts(peak).distance = 1
     /\ Cardinality(Qualifying) > peak.max_peaks)
        => /\ Cardinality(Returned) = peak.max_peaks
           /\ \A i \in Returned : \A j \in Qualifying \ Returned :
                  peak.x[i] >= peak.x[j]

\* The candidate of this iteration has passed the height, threshold and
\* distance checks and opts->width > 1: its width is measured.
WidthMeasured ==
    /\ InLoop(peak)
    /\ HeightOk(peak)
    /\ ThresholdOk(peak)
    /\ DistanceOk(peak)
    /\ Opts(peak).width > 1

Least(S) == CHOOSE v \in S : \A w \in S : v <= w
Greatest(S) == CHOOSE v \in S : \A w \in S : v >= w

\* The samples met walking outward from i on one side, up to a sample
\* strictly greater than x[i] or the end of the array.
LeftOf(i) ==
    LET above == {j \in 0 .. (i - 1) : peak.x[j] > peak.x[i]}
    IN  IF above = {} THEN 0 .. (i - 1) ELSE (Greatest(above) + 1) .. (i - 1)

RightOf(i) ==
    LET above == {j \in (i + 1) .. (peak.length - 1) : peak.x[j] > peak.x[i]}
    IN  IF above = {} THEN (i + 1) .. (peak.length - 1) ELSE (i + 1) .. (Least(above) - 1)

SideMinimum(i, side) == Least({peak.x[j] : j \in side} \cup {peak.x[i]})

\* x[i] minus the larger of the two side minima.
Prominence(i) ==
    FSub(peak.x[i], Greatest({SideMinimum(i, LeftOf(i)), SideMinimum(i, RightOf(i))}))

\* The indices right and left of i whose sample is below x[i] - prominence/2.
HalfLevel(i) == FSub(peak.x[i], FHalf(Prominence(i)))
RightBelow(i) == {j \in (i + 1) .. (peak.length - 1) : peak.x[j] < HalfLevel(i)}
LeftBelow(i) == {j \in 0 .. (i - 1) : peak.x[j] < HalfLevel(i)}

\* The step rejects the candidate and leaves the accepted peaks as they were.
RejectedUnchanged == peak' = Continue(peak)

\* The step stores the candidate as the latest accepted peak.
Accepted ==
    /\ peak'.last_peak_index = peak.i
    /\ peak'.peak_indices[peak'.peak_count] = peak.i

\* C15 as stated: the measured width is the first index right of i below
\* x[i] - prominence/2 minus the first such index left of i; the candidate is
\* rejected iff that width is below opts->width, and a rejected candidate
\* leaves the accepted peaks unchanged.
C15_WidthBetweenCrossings ==
    [][WidthMeasured =>
          LET i == peak.i
          IN  /\ RightBelow(i) # {} /\ LeftBelow(i) # {}
              /\ IF Least(RightBelow(i)) - Greatest(LeftBelow(i)) < Opts(peak).width
                 THEN RejectedUnchanged
                 ELSE Accepted]_vars

\* C15 as amended: as stated, with 0 taken for the index of a side that has
\* no sample below x[i] - prominence/2; the prominence and the width the code
\* computes are those values.
C15_WidthWithMissingCrossings ==
    [][WidthMeasured =>
          LET i == peak.i
              right == IF RightBelow(i) = {} THEN 0 ELSE Least(RightBelow(i))
              left == IF LeftBelow(i) = {} THEN 0 ELSE Greatest(LeftBelow(i))
          IN  /\ get_prominence(peak.x, peak.length, i) = Prominence(i)
              /\ peak_width(peak) = right - left
              /\ IF right - left < Opts(peak).width
                 THEN RejectedUnchanged
                 ELSE Accepted]_vars

\* The candidate before this one was larger than the last accepted peak and
\* within distance of it, so it would have replaced it, and was rejected for
\* its width: the accepted peaks are still those of before.
C15_Witness ==
    /\ peak.pc = "loop"
    /\ peak.i >= 2
    /\ peak.last_peak_index < peak.i - 1
    /\ LET q == [peak EXCEPT !.i = peak.i - 1]
       IN  /\ HeightOk(q) /\ ThresholdOk(q)
           /\ DistanceChecked(q) /\ DistanceOk(q)
           /\ Opts(q).width > 1
           /\ ~WidthOk(q)

(***************************************************************************)
(* Two threads calling one transform function                              *)
(*                                                                         *)
(* The static plan of the function is shared by the threads.  A call is    *)
(* split at its accesses to the plan: the test of the plan's length, the   *)
(* backend init, and each per-chirp (per-row) transform.  The accesses are *)
(* taken as atomic; what the threads do to their own buffers is left out.  *)
(***************************************************************************)

Threads == {1, 2}

Other(t) == CHOOSE u \in Threads : u # t

\* A thread outside a call.  overlap and mismatch describe its latest call:
\* whether the other thread was inside a call at some time during it, and
\* whether one of its transforms ran with a plan of another length.
ThreadIdle ==
    [pc |-> "idle", len |-> 0, rows |-> 0, row |-> 0,
     overlap |-> FALSE, mismatch |-> FALSE]

ThreadsInit ==
    /\ \E fn \in Fns :
          fft = [fn |-> fn, plan |-> ZeroPlan, th |-> [t \in Threads |-> ThreadIdle]]
    /\ peak = PeakIdle
    /\ mti = MtiIdle
    /\ dbf = DbfIdle

Active(t) == fft.th[t].pc # "idle"

\* The thread enters the function.
ThreadEnter ==
    /\ \E t \in Threads, len \in LengthsTried, rows \in 0 .. MaxRows :
          /\ ~Active(t)
          /\ fft' = [fft EXCEPT
                 !.th = [u \in Threads |->
                            IF u = t
                            THEN [pc |-> "check", len |-> len, rows |-> rows, row |-> 0,
                                  overlap |-> Active(Other(t)), mismatch |-> FALSE]
                            ELSE [fft.th[u] EXCEPT !.overlap = @ \/ Active(u)]]]
    /\ UNCHANGED <<peak, mti, dbf>>

\* if (cfft.fftLen != n)
ThreadCheck ==
    /\ \E t \in Threads :
          /\ fft.th[t].pc = "check"
          /\ fft' = [fft EXCEPT !.th[t].pc =
                        IF NeedsInit(fft.plan, fft.th[t].len) THEN "init" ELSE "loop"]
    /\ UNCHANGED <<peak, mti, dbf>>

\* arm_cfft_init_f32(&cfft, n), and the return when it fails.
ThreadInit ==
    /\ \E t \in Threads :
          /\ fft.th[t].pc = "init"
          /\ \E r \in BackendInit(Family(fft.fn), fft.plan, fft.th[t].len) :
                fft' = [fft EXCEPT !.plan = r.S,
                                   !.th[t].pc = IF r.status = "ARM_MATH_SUCCESS"
                                                THEN "loop" ELSE "idle"]
    /\ UNCHANGED <<peak, mti, dbf>>

\* arm_cfft_f32(&cfft, ...) on one chirp (row): it uses the plan as it is now.
ThreadTransform ==
    /\ \E t \in Threads :
          /\ fft.th[t].pc = "loop"
          /\ fft.th[t].row < fft.th[t].rows
          /\ fft' = [fft EXCEPT !.th[t].row = @ + 1,
                                !.th[t].mismatch = @ \/ (fft.plan.fftLen # fft.th[t].len)]
    /\ UNCHANGED <<peak, mti, dbf>>

\* return IFX_SENSOR_DSP_STATUS_OK
ThreadReturn ==
    /\ \E t \in Threads :
          /\ fft.th[t].pc = "loop"
          /\ ~(fft.th[t].row < fft.th[t].rows)
          /\ fft' = [fft EXCEPT !.th[t].pc = "idle"]
    /\ UNCHANGED <<peak, mti, dbf>>

ThreadsNext ==
    \/ ThreadEnter
    \/ ThreadCheck
    \/ ThreadInit
    \/ ThreadTransform
    \/ ThreadReturn

SpecFftThreads == ThreadsInit /\ [][ThreadsNext]_vars

\* C16: a call that no call of the other thread overlaps runs every
\* transform with a plan of the length it asked for; a transform with a plan
\* of another length happens only in calls that overlap (C16_Witness shows
\* that it does happen).
C16_MismatchOnlyWhenConcurrent ==
    \A t \in Threads : fft.th[t].mismatch => fft.th[t].overlap

\* A call of ifx_range_fft_f32 for one supported length has run a transform
\* with the plan the other thread built for another supported length.
C16_Witness ==
    /\ fft.fn = "ifx_range_fft_f32"
    /\ \E t \in Threads :
          /\ fft.th[t].mismatch
          /\ fft.th[t].len \in Supported("rfft")
          /\ fft.th[Other(t)].len \in Supported("rfft")
          /\ fft.th[Other(t)].len # fft.th[t].len
          /\ fft.plan = [fftLen |-> fft.th[Other(t)].len, tables |-> fft.th[Other(t)].len]

(***************************************************************************)
(* The data one transform call moves                                       *)
(* (src/source/ifx_range_fft_f32.c, ifx_range_cfft_f32.c,                  *)
(*  ifx_doppler_cfft_f32.c, ifx_mean_removal_f32.c,                        *)
(*  ifx_cmplx_mean_removal_f32.c)                                          *)
(*                                                                         *)
(* One call, one action per statement of the loop body.  Buffers are       *)
(* functions from the element index to the element.  A real sample is a    *)
(* float32 value counted in FrameUnit, a complex sample a record of two.   *)
(* The transform is the backend's: the bin it writes is a record naming    *)
(* the bin, the samples handed to the transform, and the imaginary part    *)
(* the backend stored, which is any of BackendImag.                        *)
(***************************************************************************)

MaxChirps == 2

\* The unit of a sample (divisions by the lengths tried are exact) and of a
\* window coefficient (halves).
FrameUnit == Pow2(5)
WinOne == Pow2(1)

IsReal(fn) == fn = "ifx_range_fft_f32"
IsDoppler(fn) == fn = "ifx_doppler_cfft_f32"

\* The transform length tried: the smallest the backend builds a plan for.
FrameLength(fn) ==
    CHOOSE n \in Supported(Family(fn)) : \A m \in Supported(Family(fn)) : n <= m

Cplx(re, im) == [re |-> re, im |-> im]

\* The inputs tried: sample k of row c.
SampleAt(seed, c, k) == ((seed + c + 1) * (k % 4) + c) * FrameUnit

RealFrame(seed, cols, rows) ==
    [j \in 0 .. (rows * cols - 1) |-> SampleAt(seed, j \div cols, j % cols)]

CplxFrame(seed, cols, rows) ==
    [j \in 0 .. (rows * cols - 1) |->
        Cplx(SampleAt(seed, j \div cols, j % cols), SampleAt(seed + 1, j % cols, j \div cols))]

\* The window tried: coefficients 0, 0.5, 1, 0, ...
Window(len) == [k \in 0 .. (len - 1) |-> k % 3]

\* What an output buffer holds before the call.
Stale == [bin |-> -1, of |-> <<>>, im |-> -1]

\* The imaginary parts the backend may store in a bin.
BackendImag == {0, FrameUnit}

\* The len elements of v from element off, as a sequence.
Elements(v, off, len) == [k \in 1 .. len |-> v[off + k - 1]]

\* v with the len elements from off replaced by those of the sequence e.
Replace(v, off, len, e) ==
    [j \in DOMAIN v |-> IF off <= j /\ j < off + len THEN e[j - off + 1] ELSE v[j]]

\* One pass of the summing loop: sum.re += re(v); sum.im += im(v), where a
\* real sample has no imaginary part.
Accumulate(sum, v, real) ==
    IF real THEN Cplx(FAdd(sum.re, v), 0)
    ELSE Cplx(FAdd(sum.re, v.re), FAdd(sum.im, v.im))

FDivLen(sum, len) == F32(sum \div len)

\* ifx_mean_removal_f32(v, len) on a sequence of real samples, once the
\* elements are summed: the division of arm_mean_f32 and arm_offset_f32.
ifx_mean_removal_f32(e, sum) ==
    LET mean == FDivLen(sum, Len(e))
    IN  [k \in 1 .. Len(e) |-> FAdd(e[k], -mean)]

\* ifx_cmplx_mean_removal_f32(v, len) on a sequence of complex samples, once
\* the elements are summed: the division and the subtracting loop.
ifx_cmplx_mean_removal_f32(e, sum) ==
    LET mean == Cplx(FDivLen(sum.re, Len(e)), FDivLen(sum.im, Len(e)))
    IN  [k \in 1 .. Len(e) |-> Cplx(FSub(e[k].re, mean.re), FSub(e[k].im, mean.im))]

\* A sample times a window coefficient, in float32.
FMulWin(w, v) == F32((w * v) \div WinOne)

\* arm_mult_f32(frame, win, frame, len) and arm_cmplx_mult_real_f32.
arm_mult_f32(e, win) == [k \in 1 .. Len(e) |-> FMulWin(win[k - 1], e[k])]

arm_cmplx_mult_real_f32(e, win) ==
    [k \in 1 .. Len(e) |-> Cplx(FMulWin(win[k - 1], e[k].re), FMulWin(win[k - 1], e[k].im))]

\* The bins the backend writes for the samples e: arm_rfft_fast_f32 writes
\* Len(e)/2 bins, arm_cfft_f32 writes Len(e) bins in place.
Bin(k, e, b) == [bin |-> k, of |-> e, im |-> b]
arm_rfft_fast_f32(e, b) == [k \in 1 .. (Len(e) \div 2) |-> Bin(k - 1, e, b)]
arm_cfft_f32(e, b) == [k \in 1 .. Len(e) |-> Bin(k - 1, e, b)]

\* A mutant: the elements are copied in the order of the source.
arm_mat_cmplx_trans_f32_copy(src, rows, cols) == src

\* arm_mat_cmplx_trans_f32: src has rows x cols elements, the result cols x rows.
arm_mat_cmplx_trans_f32(src, rows, cols) ==
    [j \in 0 .. (rows * cols - 1) |-> src[(j % rows) * cols + (j \div rows)]]

\* range += (num_samples_per_chirp / 2U), with a mutant that advances by a
\* whole chirp.
RangeStride_chirp(len) == len
RangeStride(len) == len \div 2

\* What arm_rfft_fast_f32 may leave in its input buffer, which it uses as
\* working storage.
Scratch == -FrameUnit

Seeds == {0, 1}

\* The state on entry: frame is the input (for the Doppler transform the
\* range data, num_chirps_per_frame rows of num_range_bins elements), out
\* the range or doppler buffer, in0 the input as the caller passed it.
FrameEntry(fn, rows, mean_removal, win, seed) ==
    LET len == FrameLength(fn)
        frame == IF IsReal(fn) THEN RealFrame(seed, len, rows)
                 ELSE IF IsDoppler(fn) THEN CplxFrame(seed, rows, len)
                 ELSE CplxFrame(seed, len, rows)
    IN  [fn |-> fn, pc |-> "entry", len |-> len, rows |-> rows,
         mean_removal |-> mean_removal, win |-> win,
         plan |-> ZeroPlan, frame |-> frame, in0 |-> frame,
         out |-> IF fn = "ifx_range_cfft_f32" THEN <<>>
                 ELSE [j \in 0 .. (rows * len - 1) |-> Stale],
         ptr |-> 0, range_ptr |-> 0, row |-> 0, stage |-> "none",
         sum |-> Cplx(0, 0), idx |-> 0]

FrameInit ==
    /\ \E fn \in Fns, rows \in 0 .. MaxChirps, mean_removal \in BOOLEAN, seed \in Seeds :
          \E win \in {NULL, Ptr(Window(FrameLength(fn)))} :
              fft = FrameEntry(fn, rows, mean_removal, win, seed)
    /\ peak = PeakIdle
    /\ mti = MtiIdle
    /\ dbf = DbfIdle

\* The buffer the loop body works on, the row it is at, and the stages of the
\* body that are switched on.
Work(s) == IF IsDoppler(s.fn) THEN s.out ELSE s.frame
WithWork(s, v) == IF IsDoppler(s.fn) THEN [s EXCEPT !.out = v] ELSE [s EXCEPT !.frame = v]
Row(s) == Elements(Work(s), s.ptr, s.len)
AfterMean_noWindow(s) == "fft"
AfterMean(s) == IF s.win # NULL THEN "win" ELSE "fft"
FirstStage(s) == IF s.mean_removal THEN "mean" ELSE AfterMean(s)
InRow(s, stage) == s.pc = "row" /\ s.row < s.rows /\ s.stage = stage

\* frame += num_samples_per_chirp; range += ...; ++chirp_idx
NextRow(s) ==
    [s EXCEPT !.row = @ + 1,
              !.ptr = @ + s.len,
              !.range_ptr = IF IsReal(s.fn) THEN @ + RangeStride(s.len) ELSE @,
              !.stage = FirstStage(s)]

\* The test of the static plan and the backend init, which succeeds.
FramePlan ==
    /\ fft.pc = "entry"
    /\ NeedsInit(fft.plan, fft.len)
    /\ \E r \in BackendInit(Family(fft.fn), fft.plan, fft.len) :
          /\ r.status = "ARM_MATH_SUCCESS"
          /\ fft' = [fft EXCEPT !.plan = r.S,
                                !.pc = IF IsDoppler(fft.fn) THEN "transpose" ELSE "row",
                                !.stage = FirstStage(fft)]
    /\ UNCHANGED <<peak, mti, dbf>>

\* (void)arm_mat_cmplx_trans_f32(&range_matrix, &doppler_matrix)
FrameTranspose ==
    /\ fft.pc = "transpose"
    /\ fft' = [fft EXCEPT !.out = arm_mat_cmplx_trans_f32(fft.frame, fft.len, fft.rows),
                          !.pc = "row"]
    /\ UNCHANGED <<peak, mti, dbf>>

\* One pass of the summing loop of the mean removal.
FrameMeanSum ==
    /\ InRow(fft, "mean")
    /\ fft.idx < fft.len
    /\ fft' = [fft EXCEPT !.sum = Accumulate(@, Row(fft)[fft.idx + 1], IsReal(fft.fn)),
                          !.idx = @ + 1]
    /\ UNCHANGED <<peak, mti, dbf>>

\* The division by the length and the subtraction from every element.
FrameMeanRemoval ==
    /\ InRow(fft, "mean")
    /\ ~(fft.idx < fft.len)
    /\ LET e == IF IsReal(fft.fn) THEN ifx_mean_removal_f32(Row(fft), fft.sum.re)
                ELSE ifx_cmplx_mean_removal_f32(Row(fft), fft.sum)
       IN  fft' = [WithWork(fft, Replace(Work(fft), fft.ptr, fft.len, e))
                      EXCEPT !.stage = AfterMean(fft),
                             !.sum = Cplx(0, 0),
                             !.idx = 0]
    /\ UNCHANGED <<peak, mti, dbf>>

FrameWindow ==
    /\ InRow(fft, "win")
    /\ LET e == IF IsReal(fft.fn) THEN arm_mult_f32(Row(fft), fft.win[1])
                ELSE arm_cmplx_mult_real_f32(Row(fft), fft.win[1])
       IN  fft' = [WithWork(fft, Replace(Work(fft), fft.ptr, fft.len, e))
                      EXCEPT !.stage = "fft"]
    /\ UNCHANGED <<peak, mti, dbf>>

\* arm_rfft_fast_f32(&rfft, frame, (float32_t*)range, 0)
FrameRealTransform ==
    /\ InRow(fft, "fft")
    /\ IsReal(fft.fn)
    /\ \E b \in BackendImag, used \in BOOLEAN :
          fft' = [fft EXCEPT
                     !.out = Replace(fft.out, fft.range_ptr, fft.len \div 2,
                                     arm_rfft_fast_f32(Row(fft), b)),
                     !.frame = IF used
                               THEN Replace(fft.frame, fft.ptr, fft.len,
                                            [k \in 1 .. fft.len |-> Scratch])
                               ELSE fft.frame,
                     !.stage = "imag0"]
    /\ UNCHANGED <<peak, mti, dbf>>

\* CIMAG_F32(range[0]) = 0.0f, and the end of the loop body.
FrameZeroImag ==
    /\ InRow(fft, "imag0")
    /\ fft' = NextRow([fft EXCEPT !.out[fft.range_ptr].im = 0])
    /\ UNCHANGED <<peak, mti, dbf>>

\* arm_cfft_f32(&cfft, (float32_t*)frame, 0, 1), and the end of the loop body.
FrameComplexTransform ==
    /\ InRow(fft, "fft")
    /\ ~IsReal(fft.fn)
    /\ \E b \in BackendImag :
          fft' = NextRow(WithWork(fft, Replace(Work(fft), fft.ptr, fft.len,
                                               arm_cfft_f32(Row(fft), b))))
    /\ UNCHANGED <<peak, mti, dbf>>

FrameReturn ==
    /\ fft.pc = "row"
    /\ ~(fft.row < fft.rows)
    /\ fft' = [fft EXCEPT !.pc = "done"]
    /\ UNCHANGED <<peak, mti, dbf>>

FrameNext ==
    \/ FramePlan
    \/ FrameTranspose
    \/ FrameMeanSum
    \/ FrameMeanRemoval
    \/ FrameWindow
    \/ FrameRealTransform
    \/ FrameZeroImag
    \/ FrameComplexTransform
    \/ FrameReturn

SpecFrame == FrameInit /\ [][FrameNext]_vars

(***************************************************************************)
(* Claims about the data of a transform call                               *)
(***************************************************************************)

\* Row c of the input as the caller passed it: chirp c of the frame, or for
\* the Doppler transform range bin c over the chirps.
InputRow(c) ==
    IF IsDoppler(fft.fn)
    THEN [k \in 1 .. fft.len |-> fft.in0[(k - 1) * fft.rows + c]]
    ELSE [k \in 1 .. fft.len |-> fft.in0[c * fft.len + k - 1]]

\* f[lo] + ... + f[hi] of whole numbers.
RECURSIVE ExactSum(_, _, _)
ExactSum(f, lo, hi) ==
    IF lo = hi THEN f[lo]
    ELSE ExactSum(f, lo, (lo + hi) \div 2) + ExactSum(f, (lo + hi) \div 2 + 1, hi)

\* The samples e less their mean.  The samples tried are multiples of
\* FrameUnit, so the mean is a whole number and a float32 value.
MeanRemoved(e) ==
    LET n == Len(e)
        mean == IF IsReal(fft.fn) THEN ExactSum(e, 1, n) \div n
                ELSE Cplx(ExactSum([j \in 1 .. n |-> e[j].re], 1, n) \div n,
                          ExactSum([j \in 1 .. n |-> e[j].im], 1, n) \div n)
    IN  IF IsReal(fft.fn)
        THEN [k \in 1 .. n |-> e[k] - mean]
        ELSE [k \in 1 .. n |-> Cplx(e[k].re - mean.re, e[k].im - mean.im)]

\* Mean removal, then the window, each if switched on, on the samples e alone.
Conditioned(e) ==
    LET m == IF fft.mean_removal THEN MeanRemoved(e) ELSE e
    IN  IF fft.win = NULL THEN m
        ELSE IF IsReal(fft.fn) THEN arm_mult_f32(m, fft.win[1])
        ELSE arm_cmplx_mult_real_f32(m, fft.win[1])

FrameDone == fft.pc = "done"

\* C17: after ifx_range_fft_f32 with N samples per chirp and C chirps, the
\* spectrum of chirp c is in range[c*(N/2) .. c*(N/2)+N/2-1], bins 0 .. N/2-1
\* in order, nothing is written past the last chirp's bins, and the imaginary
\* part of bin 0 of every chirp is 0.
C17_RangeLayoutAndZeroImag ==
    (FrameDone /\ IsReal(fft.fn)) =>
        LET half == fft.len \div 2
        IN  /\ \A c \in 0 .. (fft.rows - 1) :
                  LET transformed == Conditioned(InputRow(c))
                  IN  \A k \in 0 .. (half - 1) :
                          /\ fft.out[c * half + k].bin = k
                          /\ fft.out[c * half + k].of = transformed
            /\ \A c \in 0 .. (fft.rows - 1) : fft.out[c * half].im = 0
            /\ \A j \in DOMAIN fft.out : (j >= fft.rows * half) => fft.out[j] = Stale

\* Two chirps were transformed and the backend stored a non-zero imaginary
\* part in the bins of both.
C17_Witness ==
    /\ FrameDone
    /\ IsReal(fft.fn)
    /\ fft.rows = 2
    /\ \A c \in 0 .. 1 : fft.out[c * (fft.len \div 2) + 1].im = FrameUnit

\* The rows the loop has finished hold, where the call leaves its result,
\* the bins of the transform of row c's conditioned samples.
ResultOf(c) ==
    IF IsReal(fft.fn)
    THEN [k \in 1 .. (fft.len \div 2) |-> fft.out[c * (fft.len \div 2) + k - 1].of]
    ELSE [k \in 1 .. fft.len |-> Work(fft)[c * fft.len + k - 1].of]

\* C18: in ifx_range_fft_f32 and ifx_range_cfft_f32 the samples transformed
\* for chirp c are chirp c's own samples after mean removal over that chirp
\* and then the window, each only if switched on; a chirp the loop has not
\* reached is as the caller passed it, and with both switched off so is the
\* chirp about to be transformed.
C18_ChirpsConditionedInOrder ==
    (~IsDoppler(fft.fn) /\ fft.pc \in {"row", "done"}) =>
        /\ \A c \in 0 .. (fft.row - 1) :
              LET transformed == Conditioned(InputRow(c))
                  result == ResultOf(c)
              IN  \A k \in DOMAIN result : result[k] = transformed
        /\ \A c \in (fft.row + 1) .. (fft.rows - 1) :
              Elements(fft.frame, c * fft.len, fft.len) = InputRow(c)
        /\ (/\ ~fft.mean_removal /\ fft.win = NULL
            /\ fft.row < fft.rows /\ fft.stage = "fft")
              => Row(fft) = InputRow(fft.row)
        /\ (fft.row < fft.rows /\ fft.stage = "fft") => Row(fft) = Conditioned(InputRow(fft.row))
        /\ (fft.row < fft.rows /\ fft.stage = "mean") => Row(fft) = InputRow(fft.row)
        /\ (fft.row < fft.rows /\ fft.stage = "win") =>
              Row(fft) = IF fft.mean_removal THEN MeanRemoved(InputRow(fft.row))
                         ELSE InputRow(fft.row)

\* Two chirps with mean removal and window went through ifx_range_cfft_f32.
C18_Witness ==
    /\ FrameDone
    /\ fft.fn = "ifx_range_cfft_f32"
    /\ fft.rows = 2
    /\ fft.mean_removal
    /\ fft.win # NULL
    /\ Conditioned(InputRow(1)) # InputRow(1)

\* No per-row statement of the Doppler transform has run yet.
BeforeRows == fft.pc = "row" /\ fft.row = 0 /\ fft.stage = FirstStage(fft)

\* C19: ifx_doppler_cfft_f32 transposes first: before any per-row step
\* doppler[r][c] = range[c][r]; the per-row steps then work on the rows of the
\* doppler buffer, row r ending as the transform of range bin r's conditioned
\* samples; the range buffer is never changed.
C19_DopplerTransposesFirst ==
    IsDoppler(fft.fn) =>
        /\ fft.frame = fft.in0
        /\ (fft.pc \in {"entry", "transpose"}) => \A j \in DOMAIN fft.out : fft.out[j] = Stale
        /\ BeforeRows =>
              \A r \in 0 .. (fft.rows - 1) : \A c \in 0 .. (fft.len - 1) :
                  fft.out[r * fft.len + c] = fft.in0[c * fft.rows + r]
        /\ (fft.pc \in {"row", "done"}) =>
              /\ \A r \in 0 .. (fft.row - 1) :
                    LET transformed == Conditioned(InputRow(r))
                    IN  \A k \in 0 .. (fft.len - 1) :
                            /\ fft.out[r * fft.len + k].bin = k
                            /\ fft.out[r * fft.len + k].of = transformed
              /\ \A r \in (fft.row + 1) .. (fft.rows - 1) :
                    Elements(fft.out, r * fft.len, fft.len) = InputRow(r)

\* Two range bins with mean removal and window went through the Doppler
\* transform.
C19_Witness ==
    /\ FrameDone
    /\ IsDoppler(fft.fn)
    /\ fft.rows = 2
    /\ fft.mean_removal
    /\ fft.win # NULL
    /\ InputRow(0) # InputRow(1)

(***************************************************************************)
(* ifx_angle_dbf_f32: digital beamforming as a complex matrix product.     *)
(* A matrix is an arm_matrix_instance_f32: numRows, numCols and pData, the *)
(* elements row by row.  The elements are small whole numbers, which       *)
(* float32 products and sums represent exactly.  A failing assert() ends   *)
(* the call (and the program) before anything is written.                  *)
(***************************************************************************)

MaxDim == 2

Dims == 1 .. MaxDim

\* The caller's matrices: numRows x numCols elements that depend on the seed.
Matrix(rows, cols, seed) ==
    [numRows |-> rows, numCols |-> cols,
     pData |-> [j \in 0 .. (rows * cols - 1) |->
                   Cplx(seed + (j \div cols) - 2 * (j % cols), (j % cols) + seed * (j \div cols) - 1)]]

CMul(a, b) == Cplx(a.re * b.re - a.im * b.im, a.re * b.im + a.im * b.re)

\* The sum of the complex numbers f[0] .. f[n - 1].
RECURSIVE CSum(_, _)
CSum(f, n) ==
    IF n = 0 THEN Cplx(0, 0)
    ELSE LET rest == CSum(f, n - 1)
         IN  Cplx(rest.re + f[n - 1].re, rest.im + f[n - 1].im)

\* arm_mat_cmplx_mult_f32(pSrcA, pSrcB, pDst): the numRows of A times the
\* numCols of B elements of the product, written row by row to pDst->pData.
arm_mat_cmplx_mult_f32(A, B, Dst) ==
    [Dst EXCEPT !.pData =
        [j \in 0 .. (A.numRows * B.numCols - 1) |->
            CSum([k \in 0 .. (A.numCols - 1) |->
                     CMul(A.pData[(j \div B.numCols) * A.numCols + k],
                          B.pData[k * B.numCols + (j % B.numCols)])],
                 A.numCols)]]

\* A mutant: the number of angles is not compared.
ShapesAgree_noAngles(pInput, pSteering, pOutput) ==
    /\ pSteering.numCols = pInput.numRows
    /\ pInput.numCols = pOutput.numCols

\* The three assertions of ifx_angle_dbf_f32.
ShapesAgree(pInput, pSteering, pOutput) ==
    /\ pSteering.numCols = pInput.numRows
    /\ pInput.numCols = pOutput.numCols
    /\ pSteering.numRows = pOutput.numRows

DbfInit ==
    /\ \E ir, ic, sr, sc, orows, ocols \in Dims : \E seed \in Seeds :
          dbf = [pc |-> "entry",
                 pInput |-> Matrix(ir, ic, seed),
                 pSteering |-> Matrix(sr, sc, seed + 1),
                 pOutput |-> Matrix(orows, ocols, seed + 5),
                 out0 |-> Matrix(orows, ocols, seed + 5),
                 ret |-> "none"]
    /\ peak = PeakIdle
    /\ fft = FftIdle
    /\ mti = MtiIdle

\* One of the assertions fails: the call does not return.
DbfAssertFails ==
    /\ dbf.pc = "entry"
    /\ ~ShapesAgree(dbf.pInput, dbf.pSteering, dbf.pOutput)
    /\ dbf' = [dbf EXCEPT !.pc = "aborted"]
    /\ UNCHANGED <<peak, fft, mti>>

\* return arm_mat_cmplx_mult_f32(pSteering, pInput, pOutput);
DbfMultiply ==
    /\ dbf.pc = "entry"
    /\ ShapesAgree(dbf.pInput, dbf.pSteering, dbf.pOutput)
    /\ dbf' = [dbf EXCEPT !.pc = "done",
                          !.pOutput = arm_mat_cmplx_mult_f32(dbf.pSteering, dbf.pInput, dbf.pOutput),
                          !.ret = "ARM_MATH_SUCCESS"]
    /\ UNCHANGED <<peak, fft, mti>>

DbfNext ==
    \/ DbfAssertFails
    \/ DbfMultiply

SpecDbf == DbfInit /\ [][DbfNext]_vars

\* Element (r, c) of steering x input, steering on the left.
SteeringTimesInput(r, c) ==
    CSum([k \in 0 .. (dbf.pSteering.numCols - 1) |->
             CMul(dbf.pSteering.pData[r * dbf.pSteering.numCols + k],
                  dbf.pInput.pData[k * dbf.pInput.numCols + c])],
         dbf.pSteering.numCols)

\* C20: ifx_angle_dbf_f32 fails and leaves every element of the output as it
\* was whenever steering.columns # input.rows, input.columns #
\* output.columns or steering.rows # output.rows; when the three agree the
\* output is steering x input, an output of the shape the caller gave.
C20_DbfShapeChecksThenProduct ==
    /\ (dbf.pc \in {"aborted", "done"}) =>
          (dbf.pc = "aborted" <=>
              \/ dbf.pSteering.numCols # dbf.pInput.numRows
              \/ dbf.pInput.numCols # dbf.pOutput.numCols
              \/ dbf.pSteering.numRows # dbf.pOutput.numRows)
    /\ (dbf.pc = "aborted") => (dbf.pOutput = dbf.out0 /\ dbf.ret = "none")
    /\ (dbf.pc = "done") =>
          /\ dbf.pOutput.numRows = dbf.out0.numRows
          /\ dbf.pOutput.numCols = dbf.out0.numCols
          /\ DOMAIN dbf.pOutput.pData = 0 .. (dbf.out0.numRows * dbf.out0.numCols - 1)
          /\ \A r \in 0 .. (dbf.pOutput.numRows - 1) : \A c \in 0 .. (dbf.pOutput.numCols - 1) :
                dbf.pOutput.pData[r * dbf.pOutput.numCols + c] = SteeringTimesInput(r, c)

\* Two square matrices whose product depends on the order were multiplied.
C20_Witness ==
    /\ dbf.pc = "done"
    /\ dbf.pSteering.numRows = 2
    /\ dbf.pSteering.numCols = 2
    /\ dbf.pInput.numCols = 2
    /\ dbf.pOutput # arm_mat_cmplx_mult_f32(dbf.pInput, dbf.pSteering, dbf.out0)
    /\ dbf.pOutput # dbf.out0

(***************************************************************************)
(* Further claims about ifx_peak_search_f32                                *)
(***************************************************************************)

\* C27: in every state of a call the indices written so far are strictly
\* increasing and lie in 1 .. length-2, so samples 0 and length-1 are never
\* reported; for length <= 2 nothing is written and the call returns 0.
C27_IndicesInteriorAndIncreasing ==
    (peak.pc \in {"loop", "done"}) =>
        /\ \A j \in DOMAIN peak.peak_indices :
              /\ 1 <= peak.peak_indices[j]
              /\ peak.peak_indices[j] <= peak.length - 2
        /\ \A j, k \in DOMAIN peak.peak_indices :
              (j < k) => peak.peak_indices[j] < peak.peak_indices[k]
        /\ (peak.length <= 2) =>
              /\ DOMAIN peak.peak_indices = {}
              /\ (peak.pc = "done") => peak.ret = 0

\* A call that wrote two indices, the second next to the last sample, after
\* an earlier candidate was replaced or skipped.
C27_Witness ==
    /\ peak.pc = "done"
    /\ peak.ret >= 2
    /\ peak.peak_indices[peak.ret - 1] = peak.length - 2
    /\ peak.peak_indices[0] = 1

\* C28: with threshold > 0 a candidate that passes the threshold check has
\* both crossings of its half-prominence level inside the array and a
\* measured width of at least 2, so that a call with width = 2 rejects no
\* candidate for its width.
C28_ThresholdPassImpliesWidthTwo ==
    (InLoop(peak) /\ Opts(peak).threshold > 0 /\ ThresholdOk(peak)) =>
        LET level == FSub(peak.x[peak.i], FHalf(get_prominence(peak.x, peak.length, peak.i)))
        IN  /\ width_crossing(peak.x, peak.length, level, peak.i + 1, 1) # {}
            /\ width_crossing(peak.x, peak.length, level, peak.i - 1, -1) # {}
            /\ peak_width(peak) >= 2
            /\ (Opts(peak).width = 2) => WidthOk(peak)

(***************************************************************************)
(* A transform call that fails                                             *)
(***************************************************************************)

\* C26: a call of ifx_range_fft_f32, ifx_range_cfft_f32 or
\* ifx_doppler_cfft_f32 that returns IFX_SENSOR_DSP_ARGUMENT_ERROR has
\* executed no step on the caller's buffers (no mean removal, window,
\* transposition or transform), and the next call of the same function with
\* a length the backend supports returns IFX_SENSOR_DSP_STATUS_OK with every
\* transform run on a plan built for that length.
C26_FailedCallLeavesBuffersAndRecovers ==
    (fft.last.fn # "none") =>
        /\ (fft.last.ret = IFX_SENSOR_DSP_ARGUMENT_ERROR) => fft.last.log = <<>>
        /\ (fft.after_error /\ fft.last.len \in Supported(Family(fft.last.fn))) =>
              /\ fft.last.ret = IFX_SENSOR_DSP_STATUS_OK
              /\ \A k \in DOMAIN fft.last.log :
                    (fft.last.log[k].op = "transform") =>
                        fft.last.log[k].plan = [fftLen |-> fft.last.len, tables |-> fft.last.len]

\* A call with a supported length ran its transforms right after a failed
\* call of the same function, on the plan that was cached before the failure.
C26_Witness ==
    /\ fft.after_error
    /\ fft.last.ret = IFX_SENSOR_DSP_STATUS_OK
    /\ fft.last.len \in Supported(Family(fft.last.fn))
    /\ ~fft.last.init_called
    /\ Transforms(fft.last.log) > 0

(***************************************************************************)
(* ifx_angle_monopulse_f32 and ifx_arcsin_f32                              *)
(* (src/source/ifx_angle_monopulse_f32.c, ifx_arcsin_f32.c)                *)
(*                                                                         *)
(* The angle functions use the variable dbf.  A channel sample is a        *)
(* complex number with parts in -1, 0, 1, the imaginary zero with a sign;  *)
(* phases count in units of pi/4 and their sums and differences are exact. *)
(* The argument of the arcsine is delta_phi * ratio as the fraction        *)
(* num/den, infinite when                                                  *)
(* den = 0 (wavelength / antenna_spacing overflows float32) and not a      *)
(* number when 0 meets infinity.  The angle written is 0, +-pi/2 or the    *)
(* arcsine of the fraction.  status is kept as: differs from 0U.  dbf.calls*)
(* is the log of the backend calls made, each with the status it returned. *)
(***************************************************************************)

MaxSize == 2

\* PI in phase units.
PI == 4
TWO_PI == 2 * PI

\* The samples tried: 1, i, -1 (phase pi), -1 - 0i (phase -pi), 1 - i and 0.
MonoSamples ==
    {[re |-> 1, im |-> 0, neg0 |-> FALSE], [re |-> 0, im |-> 1, neg0 |-> FALSE],
     [re |-> -1, im |-> 0, neg0 |-> FALSE], [re |-> -1, im |-> 0, neg0 |-> TRUE],
     [re |-> 1, im |-> -1, neg0 |-> FALSE], [re |-> 0, im |-> 0, neg0 |-> FALSE]}

\* wavelength / antenna_spacing as the fraction w/s, s = 0 for an overflow.
RatiosTried == {[w |-> 1, s |-> 1], [w |-> 4, s |-> 1], [w |-> 1, s |-> 0]}

\* arm_atan2_f32(y, x, &result) of the backend on a sample: the phase, or
\* ARM_MATH_NANINF with result untouched when both parts are zero.
arm_atan2_f32(v, old) ==
    IF v.re = 0 /\ v.im = 0 THEN [status |-> "ARM_MATH_NANINF", result |-> old]
    ELSE [status |-> "ARM_MATH_SUCCESS",
          result |-> IF v.re > 0 THEN v.im
                     ELSE IF v.re = 0 THEN 2 * v.im
                     ELSE IF v.im > 0 THEN 3
                     ELSE IF v.im < 0 THEN -3
                     ELSE IF v.neg0 THEN -PI ELSE PI]

\* A mutant: the phase difference is corrected only downwards.
WrapPhase_downOnly(delta_phi) ==
    IF delta_phi > PI THEN delta_phi - TWO_PI ELSE delta_phi

\* if (delta_phi <= -PI) delta_phi += TWO_PI; else if (delta_phi > PI) ...
WrapPhase(delta_phi) ==
    IF delta_phi <= -PI THEN delta_phi + TWO_PI
    ELSE IF delta_phi > PI THEN delta_phi - TWO_PI
    ELSE delta_phi

\* delta_phi * ratio.
TimesRatio(delta_phi, r) ==
    [nan |-> (r.s = 0 /\ delta_phi = 0), num |-> delta_phi * r.w, den |-> 2 * PI * r.s]

AngleZero == [kind |-> "zero", num |-> 0, den |-> 1]

\* A mutant: the arguments of the arm_atan2_f32 call are exchanged.
AtanOfSine_swapped(x) ==
    IF x.num = 0 THEN [AngleZero EXCEPT !.kind = "pi_2"]
    ELSE [kind |-> "acos", num |-> x.num, den |-> x.den]

\* The result of arm_atan2_f32(x, y, result) for y = sqrt(1 - x*x) > 0.
AtanOfSine(x) ==
    IF x.num = 0 THEN AngleZero ELSE [kind |-> "asin", num |-> x.num, den |-> x.den]

\* ifx_arcsin_f32(x, &result): the status, the result written and the
\* backend calls made.  arm_sqrt_f32 fails on a radicand that is not >= 0;
\* the status of the arm_atan2_f32(x, y, result) that follows is not kept.
ifx_arcsin_f32(x) ==
    IF ~x.nan /\ x.num > 0 /\ x.num >= x.den
    THEN [status |-> "ARM_MATH_SUCCESS", result |-> [AngleZero EXCEPT !.kind = "pi_2"],
          calls |-> <<>>]
    ELSE IF ~x.nan /\ x.num < 0 /\ -x.num >= x.den
    THEN [status |-> "ARM_MATH_SUCCESS", result |-> [AngleZero EXCEPT !.kind = "-pi_2"],
          calls |-> <<>>]
    ELSE LET radicand == x.den * x.den - x.num * x.num
             sqrt == IF ~x.nan /\ radicand >= 0 THEN "ARM_MATH_SUCCESS"
                     ELSE "ARM_MATH_ARGUMENT_ERROR"
             y_zero == radicand = 0
             atan2 == IF x.num = 0 /\ y_zero THEN "ARM_MATH_NANINF" ELSE "ARM_MATH_SUCCESS"
         IN  IF sqrt = "ARM_MATH_SUCCESS"
             THEN [status |-> sqrt,
                   result |-> IF atan2 # "ARM_MATH_SUCCESS" THEN AngleZero ELSE AtanOfSine(x),
                   calls |-> <<[fn |-> "arm_sqrt_f32", status |-> sqrt],
                               [fn |-> "arm_atan2_f32", status |-> atan2]>>]
             ELSE [status |-> sqrt, result |-> AngleZero,
                   calls |-> <<[fn |-> "arm_sqrt_f32", status |-> sqrt]>>]

\* A mutant: the status of the latest call replaces the one kept.
StatusOr_latest(status, code) == code # "ARM_MATH_SUCCESS"

\* status |= (uint32_t)code, as: status differs from 0U.
StatusOr(status, code) == status \/ (code # "ARM_MATH_SUCCESS")

MonoInit ==
    /\ \E size \in 1 .. MaxSize, r \in RatiosTried :
          \E rx1, rx2 \in [0 .. (size - 1) -> MonoSamples] :
              dbf = [pc |-> "loop", rx1 |-> rx1, rx2 |-> rx2, size |-> size, ratio |-> r,
                     i |-> 0, rx1_ang |-> 0, rx2_ang |-> 0, status |-> FALSE,
                     delta_phi |-> <<>>, angle |-> <<>>, calls |-> <<>>, ret |-> "none"]
    /\ peak = PeakIdle
    /\ fft = FftIdle
    /\ mti = MtiIdle

\* One pass of the loop over the samples.
MonoSample ==
    /\ dbf.pc = "loop"
    /\ dbf.i < dbf.size
    /\ LET a1 == arm_atan2_f32(dbf.rx1[dbf.i], dbf.rx1_ang)
           a2 == arm_atan2_f32(dbf.rx2[dbf.i], dbf.rx2_ang)
           delta_phi == WrapPhase(a1.result - a2.result)
           asin == ifx_arcsin_f32(TimesRatio(delta_phi, dbf.ratio))
       IN  dbf' = [dbf EXCEPT
                      !.rx1_ang = a1.result,
                      !.rx2_ang = a2.result,
                      !.status = StatusOr(StatusOr(StatusOr(@, a1.status), a2.status),
                                          asin.status),
                      !.delta_phi = Append(@, [raw |-> a1.result - a2.result,
                                               wrapped |-> delta_phi]),
                      !.angle = Append(@, asin.result),
                      !.calls = @ \o <<[fn |-> "arm_atan2_f32", status |-> a1.status],
                                       [fn |-> "arm_atan2_f32", status |-> a2.status]>>
                                  \o asin.calls,
                      !.i = @ + 1]
    /\ UNCHANGED <<peak, fft, mti>>

\* return (status == 0U) ? ARM_MATH_SUCCESS : ARM_MATH_ARGUMENT_ERROR;
MonoReturn ==
    /\ dbf.pc = "loop"
    /\ ~(dbf.i < dbf.size)
    /\ dbf' = [dbf EXCEPT !.pc = "done",
                          !.ret = IF dbf.status THEN "ARM_MATH_ARGUMENT_ERROR"
                                  ELSE "ARM_MATH_SUCCESS"]
    /\ UNCHANGED <<peak, fft, mti>>

MonoNext ==
    \/ MonoSample
    \/ MonoReturn

SpecMono == MonoInit /\ [][MonoNext]_vars

(***************************************************************************)
(* Claims about ifx_angle_monopulse_f32                                    *)
(***************************************************************************)

MonoDone == dbf.pc = "done"

\* C21: ifx_angle_monopulse_f32 returns ARM_MATH_ARGUMENT_ERROR exactly when
\* one of the atan2 or sqrt calls made for any sample, those inside
\* ifx_arcsin_f32 included, returned a failure, and ARM_MATH_SUCCESS
\* otherwise; a failure on an early sample is kept when later samples succeed.
C21_AnyBackendFailureIsReturned ==
    MonoDone =>
        /\ dbf.ret \in {"ARM_MATH_SUCCESS", "ARM_MATH_ARGUMENT_ERROR"}
        /\ (dbf.ret = "ARM_MATH_ARGUMENT_ERROR") <=>
              (\E k \in DOMAIN dbf.calls : dbf.calls[k].status # "ARM_MATH_SUCCESS")

\* The first atan2 of the first sample failed and every call after it
\* succeeded, the sqrt and atan2 of the second sample's arcsine among them.
C21_Witness ==
    /\ MonoDone
    /\ dbf.size = 2
    /\ dbf.calls[1].status = "ARM_MATH_NANINF"
    /\ \A k \in DOMAIN dbf.calls : (k > 1) => dbf.calls[k].status = "ARM_MATH_SUCCESS"
    /\ Len(dbf.calls) = 8
    /\ dbf.ret = "ARM_MATH_ARGUMENT_ERROR"

\* C22: for channel phases in [-pi, pi] the phase difference after the one
\* correction step lies in (-pi, pi] and differs from the difference of the
\* phases by 0 or 2*pi; a difference of -pi becomes pi, one of 2*pi or -2*pi
\* becomes 0.
C22_PhaseDifferenceWrapped ==
    (dbf.pc \in {"loop", "done"}) =>
        /\ -PI <= dbf.rx1_ang /\ dbf.rx1_ang <= PI
        /\ -PI <= dbf.rx2_ang /\ dbf.rx2_ang <= PI
        /\ \A k \in DOMAIN dbf.delta_phi :
              LET d == dbf.delta_phi[k]
              IN  /\ -PI < d.wrapped
                  /\ d.wrapped <= PI
                  /\ (d.wrapped - d.raw) \in {-TWO_PI, 0, TWO_PI}
                  /\ (d.raw = -PI) => d.wrapped = PI
                  /\ (d.raw \in {-TWO_PI, TWO_PI}) => d.wrapped = 0

\* The phases of the first sample differ by -2*pi, those of the second by -pi.
C22_Witness ==
    /\ MonoDone
    /\ dbf.size = 2
    /\ dbf.delta_phi[1].raw = -TWO_PI
    /\ dbf.delta_phi[2].raw = -PI

\* C23: if rx1[i] = rx2[i] for every sample, every angle written is 0.
C23_EqualChannelsGiveZeroAngles ==
    ((dbf.pc \in {"loop", "done"}) /\ dbf.rx1 = dbf.rx2) =>
        \A k \in DOMAIN dbf.angle : dbf.angle[k] = AngleZero

\* Equal channels whose second sample is 0, so that both phases are left
\* from the first sample, with a ratio that is finite.
C23_Witness ==
    /\ MonoDone
    /\ dbf.size = 2
    /\ dbf.rx1 = dbf.rx2
    /\ dbf.rx1[1].re = 0 /\ dbf.rx1[1].im = 0
    /\ dbf.rx1_ang = -PI
    /\ dbf.ratio.s # 0
    /\ Len(dbf.angle) = 2

(***************************************************************************)
(* ifx_gen_steering_matrix_f32 (src/source/ifx_gen_steering_matrix_f32.c)  *)
(*                                                                         *)
(* The steering matrix uses the variable dbf.  A phase is kept by its      *)
(* class: "zero", "finite" (not zero) or "nonfinite" (infinite or not a    *)
(* number), with the angle and antenna index it was computed for.  The     *)
(* floats written are "one" and "zero" for the cosine and sine of a zero   *)
(* phase, "cos" and "sin" of a finite phase, and "nan" for either function *)
(* of a phase that is not finite.  pData has two floats more than the      *)
(* matrix holds, so that a write past the matrix would show.               *)
(***************************************************************************)

MaxAngles == 3

\* The class of phase_calc_coefficient = -1.0f * PI * ((2.0f * spacing) /
\* lambda): 0/0 is not a number, x/0 is infinite, and the function asserts
\* nothing about either argument.
Coefficient(antenna_spacing_mm, lambda_mm) ==
    IF lambda_mm = 0
    THEN IF antenna_spacing_mm = 0 THEN "nan" ELSE "inf"
    ELSE IF antenna_spacing_mm = 0 THEN "zero" ELSE "finite"

\* arm_sin_f32(angle) is zero for angle = -ang_est_range + kk * resolution
\* exactly when the angle is zero, which is the middle row of an odd number
\* of rows (the resolution is then 2 * range / 2 = range for three rows).
SinAngleIsZero(kk, num_angles) == 2 * kk = num_angles - 1

\* The product of two float32 factors by class: zero times infinity is not
\* a number.
TimesClass(a, bIsZero) ==
    CASE a = "nan" -> "nan"
      [] a = "inf" -> IF bIsZero THEN "nan" ELSE "inf"
      [] a = "zero" -> "zero"
      [] OTHER -> IF bIsZero THEN "zero" ELSE "finite"

SteerPhase_oneBased(coefficient, kk, jj, num_angles) ==
    LET c == TimesClass(TimesClass(coefficient, FALSE),
                        SinAngleIsZero(kk, num_angles))
    IN  IF c = "zero" THEN [class |-> "zero", kk |-> 0, jj |-> 0]
        ELSE [class |-> IF c = "finite" THEN "finite" ELSE "nonfinite",
              kk |-> kk, jj |-> jj + 1]

\* phase = phase_calc_coefficient * (float32_t)jj * arm_sin_f32(angle),
\* multiplied from the left.
SteerPhase(coefficient, kk, jj, num_angles) ==
    LET c == TimesClass(TimesClass(coefficient, jj = 0),
                        SinAngleIsZero(kk, num_angles))
    IN  IF c = "zero" THEN [class |-> "zero", kk |-> 0, jj |-> 0]
        ELSE [class |-> IF c = "finite" THEN "finite" ELSE "nonfinite",
              kk |-> kk, jj |-> jj]

arm_cos_f32(phase) ==
    [fn |-> CASE phase.class = "zero" -> "one"
              [] phase.class = "finite" -> "cos"
              [] OTHER -> "nan",
     phase |-> phase]

arm_sin_f32(phase) ==
    [fn |-> CASE phase.class = "zero" -> "zero"
              [] phase.class = "finite" -> "sin"
              [] OTHER -> "nan",
     phase |-> phase]

\* A float of pData that the function has not written.
Unwritten == [fn |-> "stale", phase |-> [class |-> "zero", kk |-> 0, jj |-> 0]]

\* The arguments pass every assertion of the function: 0 < ang_est_range <=
\* PI / 2 (1 and 2 in units of PI / 4), num_angles > 1, num_ant > 1 and a
\* destination matrix of num_angles rows and num_ant columns.
SteerInit ==
    /\ \E num_angles \in 2..MaxAngles, num_ant \in 2..MaxAngles,
          ang_est_range \in 1..2, antenna_spacing_mm \in 0..1,
          lambda_mm \in 0..1 :
          dbf = [pc |-> "steer",
                 num_angles |-> num_angles,
                 num_ant |-> num_ant,
                 ang_est_range |-> ang_est_range,
                 antenna_spacing_mm |-> antenna_spacing_mm,
                 lambda_mm |-> lambda_mm,
                 phase_calc_coefficient |->
                     Coefficient(antenna_spacing_mm, lambda_mm),
                 kk |-> 0,
                 jj |-> 0,
                 pOut |-> 0,
                 pData |-> [o \in 0..(2 * num_angles * num_ant + 1) |->
                               Unwritten]]
    /\ peak = PeakIdle
    /\ fft = FftIdle
    /\ mti = MtiIdle

\* One pass of the inner loop: the cosine and the sine of the phase are
\* written through pOut, which moves on by two floats.
SteerEntry ==
    /\ dbf.pc = "steer"
    /\ dbf.kk < dbf.num_angles
    /\ dbf.jj < dbf.num_ant
    /\ LET phase == SteerPhase(dbf.phase_calc_coefficient, dbf.kk, dbf.jj,
                               dbf.num_angles)
       IN  dbf' = [dbf EXCEPT
                     !.pData = [o \in DOMAIN dbf.pData |->
                                  IF o = dbf.pOut THEN arm_cos_f32(phase)
                                  ELSE IF o = dbf.pOut + 1
                                       THEN arm_sin_f32(phase)
                                       ELSE dbf.pData[o]],
                     !.pOut = dbf.pOut + 2,
                     !.jj = dbf.jj + 1]
    /\ UNCHANGED <<peak, fft, mti>>

\* The inner loop has ended: the outer loop goes on to the next angle.
SteerNextAngle ==
    /\ dbf.pc = "steer"
    /\ dbf.kk < dbf.num_angles
    /\ dbf.jj = dbf.num_ant
    /\ dbf' = [dbf EXCEPT !.kk = dbf.kk + 1, !.jj = 0]
    /\ UNCHANGED <<peak, fft, mti>>

SteerReturn ==
    /\ dbf.pc = "steer"
    /\ dbf.kk = dbf.num_angles
    /\ dbf' = [dbf EXCEPT !.pc = "done"]
    /\ UNCHANGED <<peak, fft, mti>>

SteerNext ==
    \/ SteerEntry
    \/ SteerNextAngle
    \/ SteerReturn

SpecSteer == SteerInit /\ [][SteerNext]_vars

(***************************************************************************)
(* Claims about ifx_gen_steering_matrix_f32                                *)
(***************************************************************************)

\* The floats of the matrix after the call: for angle k and antenna j the
\* pair at float offset 2 * (k * num_ant + j) is the cosine and the sine of
\* the phase of (k, j), and nothing else is written.
SteerLayout ==
    dbf.pc = "done" =>
        /\ \A k \in 0..(dbf.num_angles - 1), j \in 0..(dbf.num_ant - 1) :
              LET o == 2 * (k * dbf.num_ant + j)
                  expected == [class |->
                                 TimesClass(
                                     TimesClass(dbf.phase_calc_coefficient,
                                                j = 0),
                                     2 * k = dbf.num_angles - 1),
                               k |-> k, j |-> j]
              IN  /\ dbf.pData[o].fn \in {"one", "cos", "nan"}
                  /\ dbf.pData[o + 1].fn \in {"zero", "sin", "nan"}
                  /\ dbf.pData[o].phase = dbf.pData[o + 1].phase
                  /\ \/ /\ expected.class = "zero"
                        /\ dbf.pData[o].phase.class = "zero"
                     \/ /\ expected.class # "zero"
                        /\ dbf.pData[o].phase.kk = k
                        /\ dbf.pData[o].phase.jj = j
                        /\ (dbf.pData[o].phase.class = "finite")
                               = (expected.class = "finite")
        /\ \A o \in DOMAIN dbf.pData :
              o >= 2 * dbf.num_angles * dbf.num_ant
                  => dbf.pData[o] = Unwritten

\* Column 0 of every row holds (1, 0).
ColumnZeroIsOne ==
    \A k \in 0..(dbf.num_angles - 1) :
        /\ dbf.pData[2 * k * dbf.num_ant].fn = "one"
        /\ dbf.pData[2 * k * dbf.num_ant + 1].fn = "zero"

MaxShiftLen == 4

RotationCount_len(len) == len

\* The rotation count of a row in floats: len + 1 for odd len, else len.
RotationCount(len) == IF len % 2 = 1 THEN len + 1 ELSE len

\* One pass of the while loop of ifx_rotate_f32 on the n floats at offset
\* base of v: every float moves one place down and the first goes last.
RotateOnce(v, base, n) ==
    [o \in DOMAIN v |->
        IF o < base \/ o >= base + n THEN v[o]
        ELSE IF o < base + n - 1 THEN v[o + 1] ELSE v[base]]

\* The state at the entry of a call on buffer v: row 0 is next, if any.
ShiftEntry(len, dim, v, orig, calls) ==
    [pc |-> "rotate", len |-> len, dim |-> dim, v |-> v, entry |-> v,
     orig |-> orig, calls |-> calls, i |-> 0,
     k |-> IF dim > 0 THEN RotationCount(len) ELSE 0,
     count |-> IF dim > 0 THEN RotationCount(len) ELSE 0]

ShiftInit ==
    /\ \E len \in 0..MaxShiftLen, dim \in 0..2 :
          LET v == [o \in 0..(2 * len * dim - 1) |-> o]
          IN  fft = ShiftEntry(len, dim, v, v, 1)
    /\ peak = PeakIdle
    /\ mti = MtiIdle
    /\ dbf = DbfIdle

\* while (k > 0U): one rotation of row i by one float.
ShiftRotate ==
    /\ fft.pc = "rotate"
    /\ fft.i < fft.dim
    /\ fft.k > 0
    /\ fft' = [fft EXCEPT
                 !.v = RotateOnce(fft.v, 2 * fft.len * fft.i, 2 * fft.len),
                 !.k = fft.k - 1]
    /\ UNCHANGED <<peak, mti, dbf>>

\* ifx_rotate_f32 returns, v += len, and the next row is rotated.
ShiftNextRow ==
    /\ fft.pc = "rotate"
    /\ fft.i < fft.dim
    /\ fft.k = 0
    /\ fft' = [fft EXCEPT
                 !.i = fft.i + 1,
                 !.k = IF fft.i + 1 < fft.dim
                       THEN RotationCount(fft.len) ELSE 0,
                 !.count = IF fft.i + 1 < fft.dim
                           THEN RotationCount(fft.len) ELSE fft.count]
    /\ UNCHANGED <<peak, mti, dbf>>

ShiftReturn ==
    /\ fft.pc = "rotate"
    /\ fft.i = fft.dim
    /\ fft' = [fft EXCEPT !.pc = "done"]
    /\ UNCHANGED <<peak, mti, dbf>>

\* The caller applies the shift a second time to the same buffer.
ShiftAgain ==
    /\ fft.pc = "done"
    /\ fft.calls < 2
    /\ fft' = ShiftEntry(fft.len, fft.dim, fft.v, fft.orig, fft.calls + 1)
    /\ UNCHANGED <<peak, mti, dbf>>

ShiftNext ==
    \/ ShiftRotate
    \/ ShiftNextRow
    \/ ShiftReturn
    \/ ShiftAgain

SpecShift == ShiftInit /\ [][ShiftNext]_vars

(***************************************************************************)
(* Claims about ifx_shift_cfft_f32                                         *)
(***************************************************************************)

\* ceil(len / 2).
HalfUp(len) == (len + 1) \div 2

\* Row r of v is row r of w re-centred: complex element j is element
\* (j + ceil(len / 2)) mod len of w, real and imaginary part together.
Recentred(v, w, r, len) ==
    \A j \in 0..(len - 1), part \in 0..1 :
        v[2 * (len * r + j) + part]
            = w[2 * (len * r + ((j + HalfUp(len)) % len)) + part]

\* Row r of v is row r of w.
SameRow(v, w, r, len) ==
    \A o \in (2 * len * r)..(2 * len * (r + 1) - 1) : v[o] = w[o]

\* C25: every row that the call has finished is the row it received,
\* re-centred like fftshift (element j is the original element
\* (j + ceil(len / 2)) mod len, for even and for odd len); the rotation
\* count passed to ifx_rotate_f32 is even; a row is not changed by the
\* rotation of another row; and for even len the second call restores the
\* buffer.
C25_RowsRecentred ==
    /\ fft.count % 2 = 0
    /\ \A r \in 0..(fft.dim - 1) :
          /\ r < fft.i => Recentred(fft.v, fft.entry, r, fft.len)
          /\ r > fft.i => SameRow(fft.v, fft.entry, r, fft.len)
    /\ (fft.pc = "done" /\ fft.calls = 2 /\ fft.len % 2 = 0)
           => fft.v = fft.orig

\* A first call on two rows of odd length 3 has returned and moved floats.
C25_Witness ==
    /\ fft.pc = "done"
    /\ fft.calls = 1
    /\ fft.len = 3
    /\ fft.dim = 2
    /\ fft.count = 4
    /\ fft.v # fft.orig
    /\ fft.v[0] = 4

====
